---- MODULE Spec2Model ----
(***************************************************************************)
(* A model of the Shrike SQL test engine (src/src/shrike/engine.py) and    *)
(* of the run loop of its command line (src/src/shrike/cli.py).            *)
(*                                                                         *)
(* Python values are records [t, i, s] (type tag, integer payload, text    *)
(* payload); Python dicts whose order is observable are sequences of       *)
(* [k, v] pairs with unique keys; text is TLA+ strings, scanned character  *)
(* by character where the code scans it.  An operator that models a        *)
(* function which may raise returns a record with a field "raised" and     *)
(* the text of the exception, str(e), in "exc".                            *)
(***************************************************************************)
EXTENDS Integers, Sequences, FiniteSets, TLC

VARIABLES
    shared,      \* ConnectionManager._shared: sequence of [k |-> name, v |-> descriptor]
    cache,       \* ConnectionManager._cache: function connection string -> handle
    handles,     \* the driver's side: handle h is handles[h] = [str, status]
    last_call,   \* the last ConnectionManager call and what it returned
    threads,     \* the threads inside get_connection: position and locals of each
    args,        \* the arguments of the function under test (a pure function on its own)
    ret,         \* what it returned, once called
    cur_meta,    \* run_test: the definition being run
    cur_run,     \* run_test: the result being built, and what the run did so far
    pc,          \* run_test: "idle", "run_test" (called), "loop" (_run_multistep), "done"
    step_ix,     \* _run_multistep: the index in meta.steps of the next step
    test_files,  \* cmd_run: the discovered files, with what parsing each gives
    tag_filter,  \* cmd_run: the set of tags asked for, empty for none
    results,     \* cmd_run: the results list
    file_ix,     \* cmd_run: the index in test_files of the next file
    cli_pc,      \* cmd_run: "idle", "loop", "exited", "crashed"
    exit_code    \* cmd_run: the status given to sys.exit

connVars == <<shared, cache, handles, last_call, threads>>
fnVars == <<args, ret>>
runVars == <<cur_meta, cur_run, pc, step_ix>>
cliVars == <<test_files, tag_filter, results, file_ix, cli_pc, exit_code>>

vars == <<shared, cache, handles, last_call, threads, args, ret, cur_meta, cur_run, pc, step_ix,
          test_files, tag_filter, results, file_ix, cli_pc, exit_code>>

-----------------------------------------------------------------------------
(* Bounds of the model.                                                    *)

\* pyodbc.connect calls that may succeed in one behaviour
MaxOpens == 2

\* rows of a result set handed to evaluate_simple_test
MaxRows == 6

\* pieces (text or placeholder) of a SQL template handed to render_sql
MaxPieces == 3

\* pieces (text or placeholder) of a string handed to resolve_env_vars
MaxParts == 3

-----------------------------------------------------------------------------
(* Python values.                                                          *)

PyNone == [t |-> "none", i |-> 0, s |-> ""]
PyInt(n) == [t |-> "int", i |-> n, s |-> ""]
PyBool(b) == [t |-> "bool", i |-> IF b THEN 1 ELSE 0, s |-> ""]
PyStr(x) == [t |-> "str", i |-> 0, s |-> x]

IsNumber(v) == v.t \in {"int", "bool"}

\* a == b in Python: bool is an int (True == 1, False == 0); text and None
\* equal only their own kind
PyEq(a, b) ==
    IF IsNumber(a) /\ IsNumber(b) THEN a.i = b.i
    ELSE a.t = b.t /\ a.s = b.s

\* bool(v)
Truthy(v) ==
    CASE v.t = "none" -> FALSE
      [] v.t = "str" -> v.s # ""
      [] OTHER -> v.i # 0

\* str(v), the text an f-string puts for {v}
Format(v) ==
    CASE v.t = "none" -> "None"
      [] v.t = "str" -> v.s
      [] v.t = "bool" -> IF v.i = 1 THEN "True" ELSE "False"
      [] OTHER -> ToString(v.i)

\* repr(v), the text of v inside the repr of a list or a dict
Repr(v) == IF v.t = "str" THEN "'" \o v.s \o "'" ELSE Format(v)

-----------------------------------------------------------------------------
(* Text and ordered dicts.                                                 *)

RECURSIVE Join(_, _)
\* sep.join(parts)
Join(parts, sep) ==
    IF parts = <<>> THEN ""
    ELSE IF Len(parts) = 1 THEN parts[1]
    ELSE parts[1] \o sep \o Join(Tail(parts), sep)

\* q[:n]
Take(q, n) == SubSeq(q, 1, IF n < Len(q) THEN n ELSE Len(q))

RECURSIVE Split(_, _, _)
\* s.split(","), from position p of s on
Split(s, p, part) ==
    IF p > Len(s) THEN <<part>>
    ELSE IF SubSeq(s, p, p) = "," THEN <<part>> \o Split(s, p + 1, "")
    ELSE Split(s, p + 1, part \o SubSeq(s, p, p))

RECURSIVE Strip(_)
\* s.strip(), the white space being blanks
Strip(s) ==
    IF s = "" THEN s
    ELSE IF SubSeq(s, 1, 1) = " " THEN Strip(SubSeq(s, 2, Len(s)))
    ELSE IF SubSeq(s, Len(s), Len(s)) = " " THEN Strip(SubSeq(s, 1, Len(s) - 1))
    ELSE s

UpperCase == "ABCDEFGHIJKLMNOPQRSTUVWXYZ"
LowerCase == "abcdefghijklmnopqrstuvwxyz"

RECURSIVE Lower(_)
\* s.lower()
Lower(s) ==
    IF s = "" THEN s
    ELSE LET c == SubSeq(s, 1, 1)
             at == {n \in 1..Len(UpperCase) : SubSeq(UpperCase, n, n) = c}
         IN  (IF at = {} THEN c
              ELSE LET n == CHOOSE m \in at : TRUE IN SubSeq(LowerCase, n, n))
             \o Lower(SubSeq(s, 2, Len(s)))

\* sub in s
Contains(s, sub) ==
    \E p \in 1..(Len(s) - Len(sub) + 1) : SubSeq(s, p, p + Len(sub) - 1) = sub

\* the keys of an ordered dict, in order
Keys(d) == [n \in 1..Len(d) |-> d[n].k]

\* k in d
Has(d, key) == \E n \in 1..Len(d) : d[n].k = key

\* d[k], for k in d
Get(d, key) == d[CHOOSE n \in 1..Len(d) : d[n].k = key].v

\* d[k] = v: a present key keeps its place, a new one goes last
Put(d, key, val) ==
    IF Has(d, key)
    THEN [n \in 1..Len(d) |-> IF d[n].k = key THEN [k |-> key, v |-> val] ELSE d[n]]
    ELSE Append(d, [k |-> key, v |-> val])

\* repr of a list of text: ['a', 'b']
ReprList(names) ==
    "[" \o Join([n \in 1..Len(names) |-> "'" \o names[n] \o "'"], ", ") \o "]"

\* repr of a dict of text keys: {'a': 1, 'b': 'x'}
ReprDict(d) ==
    "{" \o Join([n \in 1..Len(d) |-> "'" \o d[n].k \o "': " \o Repr(d[n].v)], ", ") \o "}"

-----------------------------------------------------------------------------
(* Connection descriptors: a dict of the fields below.  "keys" is the set  *)
(* of keys the dict holds; a field whose key is absent holds PyNone (and   *)
(* odbc_extras the empty dict) and is never read.                          *)

NoInfo ==
    [keys |-> {}, driver |-> PyNone, server |-> PyNone, database |-> PyNone,
     trusted_connection |-> PyNone, username |-> PyNone, password |-> PyNone,
     trust_server_certificate |-> PyNone, odbc_extras |-> <<>>]

\* info.get(key, default) for a field that holds a value
InfoGet(info, key, default) == IF key \in info.keys THEN info[key] ELSE default

DefaultDriver == "ODBC Driver 18 for SQL Server"

\* ConnectionManager._build_connection_string; info[key] of an absent key
\* raises KeyError, whose text is repr(key)
_build_connection_string(info) ==
    LET driver == InfoGet(info, "driver", PyStr(DefaultDriver))
        database == InfoGet(info, "database", PyStr("master"))
        trusted == InfoGet(info, "trusted_connection", PyBool(FALSE))
        head == <<"DRIVER={" \o Format(driver) \o "}",
                  "SERVER=" \o Format(info.server),
                  "DATABASE=" \o Format(database)>>
        auth == IF Truthy(trusted)
                THEN <<"Trusted_Connection=yes">>
                ELSE <<"UID=" \o Format(info.username), "PWD=" \o Format(info.password)>>
        cert == IF Truthy(InfoGet(info, "trust_server_certificate", PyBool(TRUE)))
                THEN <<"TrustServerCertificate=yes">>
                ELSE <<>>
        extras == IF "odbc_extras" \in info.keys
                  THEN [n \in 1..Len(info.odbc_extras) |->
                          info.odbc_extras[n].k \o "=" \o Format(info.odbc_extras[n].v)]
                  ELSE <<>>
    IN  IF "server" \notin info.keys
        THEN [raised |-> TRUE, exc |-> "'server'", str |-> ""]
        ELSE IF ~Truthy(trusted) /\ "username" \notin info.keys
        THEN [raised |-> TRUE, exc |-> "'username'", str |-> ""]
        ELSE IF ~Truthy(trusted) /\ "password" \notin info.keys
        THEN [raised |-> TRUE, exc |-> "'password'", str |-> ""]
        ELSE [raised |-> FALSE, exc |-> "",
              str |-> Join(head \o auth \o cert \o extras, ";")]

-----------------------------------------------------------------------------
(* ConnectionManager.  The driver is the environment: pyodbc.connect       *)
(* returns a new handle or raises, close() returns or raises.              *)

\* the text of the error pyodbc.connect raises in the model
ConnectError == "connect failed"

\* pyodbc.connect(conn_str): a handle never returned before
Connect(hs, conn_str) == Append(hs, [str |-> conn_str, status |-> "open"])

\* ConnectionManager.get_connection, given whether the driver can connect
get_connection_NoCache(c, hs, info, connect_ok) ==
    LET b == _build_connection_string(info)
    IN  IF b.raised
        THEN [raised |-> TRUE, exc |-> b.exc, cache |-> c, handles |-> hs,
              conn |-> 0, str |-> ""]
        ELSE IF ~connect_ok
        THEN [raised |-> TRUE, exc |-> ConnectError, cache |-> c, handles |-> hs,
              conn |-> 0, str |-> b.str]
        ELSE [raised |-> FALSE, exc |-> "",
              cache |-> [s \in DOMAIN c \cup {b.str} |-> IF s = b.str THEN Len(hs) + 1 ELSE c[s]],
              handles |-> Connect(hs, b.str),
              conn |-> Len(hs) + 1, str |-> b.str]

get_connection(c, hs, info, connect_ok) ==
    LET b == _build_connection_string(info)
    IN  IF b.raised
        THEN [raised |-> TRUE, exc |-> b.exc, cache |-> c, handles |-> hs,
              conn |-> 0, str |-> ""]
        ELSE IF b.str \in DOMAIN c
        THEN [raised |-> FALSE, exc |-> "", cache |-> c, handles |-> hs,
              conn |-> c[b.str], str |-> b.str]
        ELSE IF ~connect_ok
        THEN [raised |-> TRUE, exc |-> ConnectError, cache |-> c, handles |-> hs,
              conn |-> 0, str |-> b.str]
        ELSE [raised |-> FALSE, exc |-> "",
              cache |-> [s \in DOMAIN c \cup {b.str} |-> IF s = b.str THEN Len(hs) + 1 ELSE c[s]],
              handles |-> Connect(hs, b.str),
              conn |-> Len(hs) + 1, str |-> b.str]

\* ConnectionManager.resolve
resolve(sh, name_or_dict) ==
    IF name_or_dict.is_name
    THEN IF ~Has(sh, name_or_dict.name)
         THEN [raised |-> TRUE,
               exc |-> "Connection '" \o name_or_dict.name
                       \o "' not found in shared connections. Available: "
                       \o ReprList(Keys(sh)),
               info |-> NoInfo]
         ELSE [raised |-> FALSE, exc |-> "", info |-> Get(sh, name_or_dict.name)]
    ELSE [raised |-> FALSE, exc |-> "", info |-> name_or_dict.info]

\* a connection reference: a name, or a descriptor
ByName(n) == [is_name |-> TRUE, name |-> n, info |-> NoInfo]
ByInfo(d) == [is_name |-> FALSE, name |-> "", info |-> d]

\* The handles close_all closes are the values of the cache; `failing` are
\* the handles whose close() raises.
Cached(c) == {c[s] : s \in DOMAIN c}

\* ConnectionManager.close_all without its try/except: the first close()
\* that raises ends the call, and the cache is not cleared
close_all_NoTry(c, hs, failing) ==
    IF Cached(c) \cap failing # {}
    THEN [raised |-> TRUE, cache |-> c,
          handles |-> [h \in 1..Len(hs) |->
                         IF h \in Cached(c) \cap failing
                         THEN [hs[h] EXCEPT !.status = "close_failed"]
                         ELSE hs[h]]]
    ELSE [raised |-> FALSE, cache |-> <<>>,
          handles |-> [h \in 1..Len(hs) |->
                         IF h \in Cached(c) THEN [hs[h] EXCEPT !.status = "closed"]
                         ELSE hs[h]]]

\* ConnectionManager.close_all
close_all(c, hs, failing) ==
    [raised |-> FALSE, cache |-> <<>>,
     handles |-> [h \in 1..Len(hs) |->
                    IF h \notin Cached(c) THEN hs[h]
                    ELSE IF h \in failing
                    THEN [hs[h] EXCEPT !.status = "close_failed"]
                    ELSE [hs[h] EXCEPT !.status = "closed"]]]

-----------------------------------------------------------------------------
(* Success expressions.  A success_expression is the value the definition  *)
(* holds (text, or whatever else the YAML gave) and, for text, what Python *)
(* parses it to: "atom == atom", "atom - atom", a lone atom, or a syntax   *)
(* error.  An atom is steps[step][idx][col], len(steps[step]), an integer  *)
(* literal, or a name.                                                     *)

NoAtom == [kind |-> "none", step |-> "", idx |-> 0, col |-> "", n |-> 0, id |-> ""]
Cell(s, x, c) == [NoAtom EXCEPT !.kind = "cell", !.step = s, !.idx = x, !.col = c]
LenOf(s) == [NoAtom EXCEPT !.kind = "len", !.step = s]
Literal(n) == [NoAtom EXCEPT !.kind = "int", !.n = n]
Name(x) == [NoAtom EXCEPT !.kind = "name", !.id = x]

\* the source text of an atom
AtomText(a) ==
    CASE a.kind = "cell" ->
            "steps['" \o a.step \o "'][" \o ToString(a.idx) \o "]['" \o a.col \o "']"
      [] a.kind = "len" -> "len(steps['" \o a.step \o "'])"
      [] a.kind = "int" -> ToString(a.n)
      [] OTHER -> a.id

-----------------------------------------------------------------------------
(* Test definitions: the dict parse_test_file returns.  "keys" is the set  *)
(* of keys the dict holds; the field of an absent key is never read.       *)

NoExpr == [value |-> PyNone, form |-> "syntax_error", l |-> NoAtom, r |-> NoAtom]

\* the value of the key "tags": a list of values, text, or a scalar
NoTags == [kind |-> "list", items |-> <<>>, text |-> ""]
TagList(items) == [NoTags EXCEPT !.items = items]
TagText(text) == [NoTags EXCEPT !.kind = "str", !.text = text]
TagScalar == [NoTags EXCEPT !.kind = "int"]

NoMeta ==
    [keys |-> {}, test_name |-> "", connection |-> ByName(""),
     server |-> PyNone, database |-> PyNone, username |-> PyNone, password |-> PyNone,
     trusted_connection |-> PyNone, driver |-> PyNone,
     trust_server_certificate |-> PyNone,
     connections |-> <<>>, steps |-> <<>>,
     success_expression |-> NoExpr,
     success_column |-> PyNone, success_value |-> PyNone, allow_empty |-> PyNone,
     tags |-> NoTags, _sql |-> "", _sql_steps |-> <<>>, _filepath |-> ""]

\* meta.get(key, default)
MetaGet(meta, key, default) == IF key \in meta.keys THEN meta[key] ELSE default

\* key in row, for a key that is any Python value: the keys of a row are text
InRow(row, key) == key.t = "str" /\ Has(row, key.s)

-----------------------------------------------------------------------------
(* Template rendering.  step_results is the ordered dict step name -> rows *)
(* and a row the ordered dict column -> value.                             *)

\* the characters \w matches
WordChars ==
    { "a", "b", "c", "d", "e", "f", "g", "h", "i", "j", "k", "l", "m",
      "n", "o", "p", "q", "r", "s", "t", "u", "v", "w", "x", "y", "z",
      "A", "B", "C", "D", "E", "F", "G", "H", "I", "J", "K", "L", "M",
      "N", "O", "P", "Q", "R", "S", "T", "U", "V", "W", "X", "Y", "Z",
      "0", "1", "2", "3", "4", "5", "6", "7", "8", "9", "_" }

\* whether text t holds lit at position p
At(t, p, lit) == p + Len(lit) - 1 <= Len(t) /\ SubSeq(t, p, p + Len(lit) - 1) = lit

RECURSIVE WordEnd(_, _)
\* the last position of the longest run of \w from position p of t on
\* (p - 1 when there is none)
WordEnd(t, p) ==
    IF p <= Len(t) /\ SubSeq(t, p, p) \in WordChars THEN WordEnd(t, p + 1) ELSE p - 1

\* the match of \{\{step\.(\w+)\.(\w+)\}\} at position p of t; \w+ is greedy,
\* and gives nothing back to the "." or the "}}" after it, which are not \w
PlaceholderAt(t, p) ==
    LET name_from == p + 7
        name_to == WordEnd(t, name_from)
        col_from == name_to + 2
        col_to == WordEnd(t, col_from)
    IN  IF /\ At(t, p, "{{step.")
           /\ name_to >= name_from
           /\ At(t, name_to + 1, ".")
           /\ col_to >= col_from
           /\ At(t, col_to + 1, "}}")
        THEN [found |-> TRUE, step_name |-> SubSeq(t, name_from, name_to),
              column |-> SubSeq(t, col_from, col_to), last |-> col_to + 2]
        ELSE [found |-> FALSE, step_name |-> "", column |-> "", last |-> p]

\* rows[0].get(column)
FirstRowGet(rows, column) == IF Has(rows[1], column) THEN Get(rows[1], column) ELSE PyNone

\* step_results.get(step_name), None being the empty list here: both are falsy
StepRows(step_results, step_name) ==
    IF Has(step_results, step_name) THEN Get(step_results, step_name) ELSE <<>>

\* the text of the placeholder of a step and a column
PlaceholderText(step_name, column) == "{{step." \o step_name \o "." \o column \o "}}"

\* replacer without its check of the rows: a placeholder of a step that has
\* no rows stays in the SQL as it is
replacer_Lenient(step_name, column, step_results) ==
    LET rows == StepRows(step_results, step_name)
    IN  IF rows = <<>>
        THEN [raised |-> FALSE, exc |-> "", text |-> PlaceholderText(step_name, column)]
        ELSE LET val == FirstRowGet(rows, column)
             IN  IF val.t = "none"
                 THEN [raised |-> TRUE,
                       exc |-> "Column '" \o column \o "' not found in step '"
                               \o step_name \o "'",
                       text |-> ""]
                 ELSE IF val.t = "str"
                 THEN [raised |-> FALSE, exc |-> "", text |-> "'" \o val.s \o "'"]
                 ELSE [raised |-> FALSE, exc |-> "", text |-> Format(val)]

\* replacer of render_sql
replacer(step_name, column, step_results) ==
    LET rows == StepRows(step_results, step_name)
    IN  IF rows = <<>>
        THEN [raised |-> TRUE,
              exc |-> "Step '" \o step_name \o "' has no results to reference",
              text |-> ""]
        ELSE LET val == FirstRowGet(rows, column)
             IN  IF val.t = "none"
                 THEN [raised |-> TRUE,
                       exc |-> "Column '" \o column \o "' not found in step '"
                               \o step_name \o "'",
                       text |-> ""]
                 ELSE IF val.t = "str"
                 THEN [raised |-> FALSE, exc |-> "", text |-> "'" \o val.s \o "'"]
                 ELSE [raised |-> FALSE, exc |-> "", text |-> Format(val)]

RECURSIVE Sub(_, _, _)
\* re.sub from position p of the template on: the matches are found from
\* left to right in the template, each is replaced by what replacer returns,
\* and the scan goes on after the match
Sub(t, p, step_results) ==
    IF p > Len(t) THEN [raised |-> FALSE, exc |-> "", sql |-> ""]
    ELSE LET m == PlaceholderAt(t, p)
         IN  IF ~m.found
             THEN LET rest == Sub(t, p + 1, step_results)
                  IN  IF rest.raised THEN rest
                      ELSE [rest EXCEPT !.sql = SubSeq(t, p, p) \o @]
             ELSE LET r == replacer(m.step_name, m.column, step_results)
                  IN  IF r.raised THEN [raised |-> TRUE, exc |-> r.exc, sql |-> ""]
                      ELSE LET rest == Sub(t, m.last + 1, step_results)
                           IN  IF rest.raised THEN rest
                               ELSE [rest EXCEPT !.sql = r.text \o @]

\* render_sql
render_sql(sql_template, step_results) == Sub(sql_template, 1, step_results)

-----------------------------------------------------------------------------
(* Environment variable resolution.  The environment is an ordered dict    *)
(* name -> text.  A value is a node [kind, text, leaf, items]: text        *)
(* ("str"), a dict ("dict", items the sequence of [k, v]), a list ("list", *)
(* items the sequence of [k |-> "", v]), or any other value ("leaf").      *)

StrNode(x) == [kind |-> "str", text |-> x, leaf |-> PyNone, items |-> <<>>]
LeafNode(v) == [kind |-> "leaf", text |-> "", leaf |-> v, items |-> <<>>]
DictNode(items) == [kind |-> "dict", text |-> "", leaf |-> PyNone, items |-> items]
ListNode(values) ==
    [kind |-> "list", text |-> "", leaf |-> PyNone,
     items |-> [n \in 1..Len(values) |-> [k |-> "", v |-> values[n]]]]

RECURSIVE DefaultEnd(_, _)
\* the last position of the longest run of [^}] from position p of t on
\* (p - 1 when there is none)
DefaultEnd(t, p) ==
    IF p <= Len(t) /\ SubSeq(t, p, p) # "}" THEN DefaultEnd(t, p + 1) ELSE p - 1

\* the match of ENV_VAR_RE, \$\{(\w+)(?::([^}]*))?\}, at position p of t
EnvPlaceholderAt(t, p) ==
    LET name_from == p + 2
        name_to == WordEnd(t, name_from)
        default_from == name_to + 2
        default_to == DefaultEnd(t, default_from)
        none == [found |-> FALSE, var_name |-> "", has_default |-> FALSE,
                 default |-> "", last |-> p]
    IN  IF ~(At(t, p, "${") /\ name_to >= name_from) THEN none
        ELSE IF At(t, name_to + 1, "}")
        THEN [found |-> TRUE, var_name |-> SubSeq(t, name_from, name_to),
              has_default |-> FALSE, default |-> "", last |-> name_to + 1]
        ELSE IF At(t, name_to + 1, ":") /\ At(t, default_to + 1, "}")
        THEN [found |-> TRUE, var_name |-> SubSeq(t, name_from, name_to),
              has_default |-> TRUE, default |-> SubSeq(t, default_from, default_to),
              last |-> default_to + 1]
        ELSE none

\* replacer of resolve_env_vars with the default taken before the variable
env_replacer_DefaultFirst(var_name, has_default, default, environ) ==
    IF has_default THEN [raised |-> FALSE, exc |-> "", text |-> default]
    ELSE IF Has(environ, var_name)
    THEN [raised |-> FALSE, exc |-> "", text |-> Get(environ, var_name)]
    ELSE [raised |-> TRUE,
          exc |-> "Environment variable '${" \o var_name
                  \o "}' is not set and no default provided",
          text |-> ""]

\* replacer of resolve_env_vars
env_replacer(var_name, has_default, default, environ) ==
    IF Has(environ, var_name)
    THEN [raised |-> FALSE, exc |-> "", text |-> Get(environ, var_name)]
    ELSE IF has_default THEN [raised |-> FALSE, exc |-> "", text |-> default]
    ELSE [raised |-> TRUE,
          exc |-> "Environment variable '${" \o var_name
                  \o "}' is not set and no default provided",
          text |-> ""]

RECURSIVE EnvSub(_, _, _)
\* ENV_VAR_RE.sub(replacer, value) from position p of the text on
EnvSub(t, p, environ) ==
    IF p > Len(t) THEN [raised |-> FALSE, exc |-> "", text |-> ""]
    ELSE LET m == EnvPlaceholderAt(t, p)
         IN  IF ~m.found
             THEN LET rest == EnvSub(t, p + 1, environ)
                  IN  IF rest.raised THEN rest
                      ELSE [rest EXCEPT !.text = SubSeq(t, p, p) \o @]
             ELSE LET r == env_replacer(m.var_name, m.has_default, m.default, environ)
                  IN  IF r.raised THEN r
                      ELSE LET rest == EnvSub(t, m.last + 1, environ)
                           IN  IF rest.raised THEN rest
                               ELSE [rest EXCEPT !.text = r.text \o @]

RECURSIVE resolve_env_vars(_, _)
RECURSIVE ResolveItems(_, _, _)
\* the comprehensions of resolve_env_vars, from item n on: the first item
\* that raises ends them
ResolveItems(items, n, environ) ==
    IF n > Len(items) THEN [raised |-> FALSE, exc |-> "", items |-> <<>>]
    ELSE LET r == resolve_env_vars(items[n].v, environ)
         IN  IF r.raised THEN [raised |-> TRUE, exc |-> r.exc, items |-> <<>>]
             ELSE LET rest == ResolveItems(items, n + 1, environ)
                  IN  IF rest.raised THEN rest
                      ELSE [rest EXCEPT !.items = <<[k |-> items[n].k, v |-> r.value]>> \o @]

\* resolve_env_vars, with os.environ
resolve_env_vars(value, environ) ==
    IF value.kind = "str"
    THEN LET r == EnvSub(value.text, 1, environ)
         IN  [raised |-> r.raised, exc |-> r.exc,
              value |-> IF r.raised THEN LeafNode(PyNone) ELSE StrNode(r.text)]
    ELSE IF value.kind \in {"dict", "list"}
    THEN LET r == ResolveItems(value.items, 1, environ)
         IN  [raised |-> r.raised, exc |-> r.exc,
              value |-> IF r.raised THEN LeafNode(PyNone)
                        ELSE [value EXCEPT !.items = r.items]]
    ELSE [raised |-> FALSE, exc |-> "", value |-> value]

-----------------------------------------------------------------------------
(* The test file parser.  The text of a file is a string with its line     *)
(* ends ("\n") in it; the two regular expressions of the parser are        *)
(* matched character by character.                                         *)

\* \s, for the white space the texts of the model hold
SpaceChars == {" ", "\t", "\n"}

\* t[a-1:b], empty when b < a
Slice(t, a, b) == IF a > b THEN "" ELSE SubSeq(t, a, b)

RECURSIVE SpaceEnd(_, _)
\* the last position of the longest run of \s from position p of t on
\* (p - 1 when there is none)
SpaceEnd(t, p) ==
    IF p <= Len(t) /\ SubSeq(t, p, p) \in SpaceChars THEN SpaceEnd(t, p + 1) ELSE p - 1

RECURSIVE LineEnd(_, _)
\* the last position of the longest run of "." (anything but a line end)
\* from position p of t on (p - 1 when there is none)
LineEnd(t, p) ==
    IF p <= Len(t) /\ SubSeq(t, p, p) # "\n" THEN LineEnd(t, p + 1) ELSE p - 1

RECURSIVE StripWs(_)
\* s.strip(), of text with line ends
StripWs(x) ==
    IF x = "" THEN x
    ELSE IF SubSeq(x, 1, 1) \in SpaceChars THEN StripWs(SubSeq(x, 2, Len(x)))
    ELSE IF SubSeq(x, Len(x), Len(x)) \in SpaceChars THEN StripWs(SubSeq(x, 1, Len(x) - 1))
    ELSE x

\* the positions of the line ends of t between positions a and b
LineEndsIn(t, a, b) == {k \in a..b : k <= Len(t) /\ SubSeq(t, k, k) = "\n"}

\* the match of step_name_re, ^---\s*step\s*:\s*(.+)$ with MULTILINE and
\* IGNORECASE, at position p of t.  Each \s* is greedy and runs over line
\* ends; the last one gives back what (.+) needs when only white space
\* follows the colon.
StepNameAt(t, p) ==
    LET step_from == SpaceEnd(t, p + 3) + 1
        colon == SpaceEnd(t, step_from + 4) + 1
        space_to == SpaceEnd(t, colon + 1)
        given_back == {k \in (colon + 1)..space_to : SubSeq(t, k, k) # "\n"}
        name_from ==
            IF space_to < Len(t) THEN space_to + 1
            ELSE IF given_back # {}
            THEN CHOOSE k \in given_back : \A o \in given_back : o <= k
            ELSE 0
        none == [found |-> FALSE, name |-> "", last |-> p]
    IN  IF /\ (p = 1 \/ SubSeq(t, p - 1, p - 1) = "\n")
           /\ At(t, p, "---")
           /\ step_from + 3 <= Len(t)
           /\ Lower(SubSeq(t, step_from, step_from + 3)) = "step"
           /\ At(t, colon, ":")
           /\ name_from > 0
        THEN [found |-> TRUE, name |-> SubSeq(t, name_from, LineEnd(t, name_from)),
              last |-> LineEnd(t, name_from)]
        ELSE none

RECURSIVE StepNameSplit(_, _, _)
\* step_name_re.split(body), scanning from position p, the piece in hand
\* starting at position from: [text, name, text, name, text, ...]
StepNameSplit(t, p, from) ==
    IF p > Len(t) THEN <<Slice(t, from, Len(t))>>
    ELSE LET m == StepNameAt(t, p)
         IN  IF m.found
             THEN <<Slice(t, from, p - 1), m.name>>
                  \o StepNameSplit(t, m.last + 1, m.last + 1)
             ELSE StepNameSplit(t, p + 1, from)

RECURSIVE SqlByStep(_, _, _)
\* the loop of parse_test_file over raw_parts, from index i on
SqlByStep(raw_parts, i, sql_by_step) ==
    IF i > Len(raw_parts) THEN sql_by_step
    ELSE SqlByStep(raw_parts, i + 2,
                   Put(sql_by_step, StripWs(raw_parts[i]),
                       StrNode(IF i + 1 <= Len(raw_parts)
                               THEN StripWs(raw_parts[i + 1]) ELSE "")))

\* the match of FRONTMATTER_RE, ^---\s*\n(.*?)\n---\s*\n with DOTALL, at
\* the start of t: the opening \s* is greedy and gives back down to a line
\* end, (.*?) is the shortest text before a closing line, and the closing
\* \s* runs to the last line end of the white space after it
FrontmatterMatch(t) ==
    LET Closings(n) ==
            {x \in (n + 1)..Len(t) :
                /\ SubSeq(t, x, x) = "\n"
                /\ At(t, x + 1, "---")
                /\ LineEndsIn(t, x + 4, SpaceEnd(t, x + 4)) # {}}
        openings == {n \in LineEndsIn(t, 4, SpaceEnd(t, 4)) : Closings(n) # {}}
    IN  IF ~At(t, 1, "---") \/ openings = {}
        THEN [found |-> FALSE, group |-> "", end |-> 0]
        ELSE LET n == CHOOSE k \in openings : \A o \in openings : o <= k
                 x == CHOOSE k \in Closings(n) : \A o \in Closings(n) : k <= o
                 ends == LineEndsIn(t, x + 4, SpaceEnd(t, x + 4))
             IN  [found |-> TRUE, group |-> Slice(t, n + 1, x - 1),
                  end |-> CHOOSE k \in ends : \A o \in ends : o <= k]

\* yaml.safe_load, for the metadata blocks of the model: a mapping, a
\* mapping with a placeholder in it, a list, nothing, and otherwise text
safe_load(doc) ==
    IF doc = "test_name: t"
    THEN DictNode(<<[k |-> "test_name", v |-> StrNode("t")]>>)
    ELSE IF doc = "test_name: t\npassword: ${PW}"
    THEN DictNode(<<[k |-> "test_name", v |-> StrNode("t")],
                    [k |-> "password", v |-> StrNode("${PW}")]>>)
    ELSE IF doc = "- t" THEN ListNode(<<StrNode("t")>>)
    ELSE IF StripWs(doc) = "" THEN LeafNode(PyNone)
    ELSE StrNode(doc)

\* parse_test_file, given the text of the file and os.environ
parse_test_file(text, filepath, environ) ==
    LET m == FrontmatterMatch(text)
        meta == safe_load(m.group)
        body == Slice(text, m.end + 1, Len(text))
        raw_parts == StepNameSplit(body, 1, 1)
        with_sql ==
            IF Len(raw_parts) > 1
            THEN Put(meta.items, "_sql_steps", DictNode(SqlByStep(raw_parts, 2, <<>>)))
            ELSE Put(meta.items, "_sql", StrNode(StripWs(body)))
        with_path == Put(with_sql, "_filepath", StrNode(filepath))
        resolved == resolve_env_vars(DictNode(with_path), environ)
        failed(kind, message) ==
            [raised |-> TRUE, kind |-> kind, exc |-> message, meta |-> <<>>]
    IN  IF ~m.found
        THEN failed("ValueError", "No YAML frontmatter found in " \o filepath)
        ELSE IF meta.kind = "list"
        THEN failed("TypeError", "list indices must be integers or slices, not str")
        ELSE IF meta.kind = "str"
        THEN failed("TypeError", "'str' object does not support item assignment")
        ELSE IF meta.kind = "leaf"
        THEN failed("TypeError", "'NoneType' object does not support item assignment")
        ELSE IF resolved.raised
        THEN failed("ValueError", resolved.exc)
        ELSE [raised |-> FALSE, kind |-> "", exc |-> "",
              meta |-> Put(resolved.value.items, "_filepath", StrNode(filepath))]

-----------------------------------------------------------------------------
(* Test evaluation.                                                        *)

RECURSIVE CheckRows(_, _, _, _, _)
\* the loop of evaluate_simple_test from row i on (i counts from 1, the
\* message counts rows from 0), then its two returns
CheckRows(rows, i, success_col, expect_value, failures) ==
    IF i > Len(rows)
    THEN IF failures # <<>>
         THEN [passed |-> FALSE,
               message |-> ToString(Len(failures)) \o " row(s) failed: "
                           \o Join(Take(failures, 5), "; ")]
         ELSE [passed |-> TRUE,
               message |-> "All " \o ToString(Len(rows)) \o " row(s) passed"]
    ELSE IF ~InRow(rows[i], success_col)
    THEN [passed |-> FALSE,
          message |-> "Column '" \o Format(success_col)
                      \o "' not found in results. Columns: "
                      \o ReprList(Keys(rows[i]))]
    ELSE CheckRows(rows, i + 1, success_col, expect_value,
                   IF PyEq(Get(rows[i], success_col.s), expect_value)
                   THEN failures
                   ELSE Append(failures,
                               "Row " \o ToString(i - 1) \o ": " \o Format(success_col)
                               \o "=" \o Format(Get(rows[i], success_col.s))))

RECURSIVE CheckRowsNoCap(_, _, _, _, _)
\* CheckRows with every failure listed in the message
CheckRowsNoCap(rows, i, success_col, expect_value, failures) ==
    IF i > Len(rows)
    THEN IF failures # <<>>
         THEN [passed |-> FALSE,
               message |-> ToString(Len(failures)) \o " row(s) failed: "
                           \o Join(failures, "; ")]
         ELSE [passed |-> TRUE,
               message |-> "All " \o ToString(Len(rows)) \o " row(s) passed"]
    ELSE IF ~InRow(rows[i], success_col)
    THEN [passed |-> FALSE,
          message |-> "Column '" \o Format(success_col)
                      \o "' not found in results. Columns: "
                      \o ReprList(Keys(rows[i]))]
    ELSE CheckRowsNoCap(rows, i + 1, success_col, expect_value,
                   IF PyEq(Get(rows[i], success_col.s), expect_value)
                   THEN failures
                   ELSE Append(failures,
                               "Row " \o ToString(i - 1) \o ": " \o Format(success_col)
                               \o "=" \o Format(Get(rows[i], success_col.s))))

\* evaluate_simple_test with the cap on the listed failures left out
evaluate_simple_test_NoCap(meta, rows) ==
    IF rows = <<>>
    THEN IF Truthy(MetaGet(meta, "allow_empty", PyBool(FALSE)))
         THEN [passed |-> TRUE, message |-> "Query returned no rows (allowed)"]
         ELSE [passed |-> FALSE, message |-> "Query returned no rows"]
    ELSE CheckRowsNoCap(rows, 1, MetaGet(meta, "success_column", PyStr("success")),
                        MetaGet(meta, "success_value", PyInt(0)), <<>>)

\* evaluate_simple_test
evaluate_simple_test(meta, rows) ==
    LET success_col == MetaGet(meta, "success_column", PyStr("success"))
        expect_value == MetaGet(meta, "success_value", PyInt(0))
    IN  IF rows = <<>>
        THEN IF Truthy(MetaGet(meta, "allow_empty", PyBool(FALSE)))
             THEN [passed |-> TRUE, message |-> "Query returned no rows (allowed)"]
             ELSE [passed |-> FALSE, message |-> "Query returned no rows"]
        ELSE CheckRows(rows, 1, success_col, expect_value, <<>>)

-----------------------------------------------------------------------------
(* Expression evaluation.                                                  *)

\* type(v).__name__
TypeName(v) == IF v.t = "none" THEN "NoneType" ELSE v.t

\* the names eval() is given: the locals of evaluate_expression
EvalNames == {"steps", "len", "abs", "sum", "min", "max"}

\* Python's evaluation of an atom with `steps` in scope
EvalAtom(a, steps) ==
    CASE a.kind = "cell" ->
            IF ~Has(steps, a.step)
            THEN [raised |-> TRUE, exc |-> "'" \o a.step \o "'", val |-> PyNone]
            ELSE IF a.idx >= Len(Get(steps, a.step))
            THEN [raised |-> TRUE, exc |-> "list index out of range", val |-> PyNone]
            ELSE IF ~Has(Get(steps, a.step)[a.idx + 1], a.col)
            THEN [raised |-> TRUE, exc |-> "'" \o a.col \o "'", val |-> PyNone]
            ELSE [raised |-> FALSE, exc |-> "",
                  val |-> Get(Get(steps, a.step)[a.idx + 1], a.col)]
      [] a.kind = "len" ->
            IF ~Has(steps, a.step)
            THEN [raised |-> TRUE, exc |-> "'" \o a.step \o "'", val |-> PyNone]
            ELSE [raised |-> FALSE, exc |-> "", val |-> PyInt(Len(Get(steps, a.step)))]
      [] a.kind = "int" -> [raised |-> FALSE, exc |-> "", val |-> PyInt(a.n)]
      [] OTHER ->
            \* a name other than those given is not defined: __builtins__ is empty
            IF a.id \in EvalNames
            THEN [raised |-> FALSE, exc |-> "", val |-> PyStr("<" \o a.id \o ">")]
            ELSE [raised |-> TRUE, exc |-> "name '" \o a.id \o "' is not defined",
                  val |-> PyNone]

\* Python's eval(expr, ...) of a success_expression: the left operand first
Eval(expr, steps) ==
    IF expr.value.t # "str"
    THEN [raised |-> TRUE, exc |-> "eval() arg 1 must be a string, bytes or code object",
          val |-> PyNone]
    ELSE IF expr.form = "syntax_error"
    THEN [raised |-> TRUE, exc |-> "invalid syntax (<string>, line 1)", val |-> PyNone]
    ELSE LET l == EvalAtom(expr.l, steps)
             r == EvalAtom(expr.r, steps)
         IN  IF l.raised THEN l
             ELSE IF expr.form = "atom" THEN l
             ELSE IF r.raised THEN r
             ELSE IF expr.form = "eq"
             THEN [raised |-> FALSE, exc |-> "", val |-> PyBool(PyEq(l.val, r.val))]
             ELSE IF IsNumber(l.val) /\ IsNumber(r.val)
             THEN [raised |-> FALSE, exc |-> "", val |-> PyInt(l.val.i - r.val.i)]
             ELSE [raised |-> TRUE,
                   exc |-> "unsupported operand type(s) for -: '" \o TypeName(l.val)
                           \o "' and '" \o TypeName(r.val) \o "'",
                   val |-> PyNone]

\* the steps that have rows, in the order of the dict
WithRows(steps) == SelectSeq(steps, LAMBDA item : item.v # <<>>)

\* the falsy branch of evaluate_expression
ExpressionFailed(expr, steps) ==
    LET shown == WithRows(steps)
        detail_parts == [n \in 1..Len(shown) |->
                            shown[n].k \o ": " \o ReprDict(shown[n].v[1])]
    IN  [raised |-> FALSE, exc |-> "", passed |-> FALSE,
         message |-> "Expression failed: " \o Format(expr.value) \o " | Values: "
                     \o Join(detail_parts, "; ")]

\* evaluate_expression without its try/except
evaluate_expression_NoTry(expr, steps) ==
    LET result == Eval(expr, steps)
    IN  IF result.raised
        THEN [raised |-> TRUE, exc |-> result.exc, passed |-> FALSE, message |-> ""]
        ELSE IF Truthy(result.val)
        THEN [raised |-> FALSE, exc |-> "", passed |-> TRUE,
              message |-> "Expression passed: " \o Format(expr.value)]
        ELSE ExpressionFailed(expr, steps)

\* evaluate_expression
evaluate_expression(expr, steps) ==
    LET result == Eval(expr, steps)
    IN  IF result.raised
        THEN [raised |-> FALSE, exc |-> "", passed |-> FALSE,
              message |-> "Expression error: " \o result.exc]
        ELSE IF Truthy(result.val)
        THEN [raised |-> FALSE, exc |-> "", passed |-> TRUE,
              message |-> "Expression passed: " \o Format(expr.value)]
        ELSE ExpressionFailed(expr, steps)

\* success expressions: text with its parse, and values that are not text
Binary(f, l, r) ==
    [value |-> PyStr(AtomText(l) \o (IF f = "eq" THEN " == " ELSE " - ") \o AtomText(r)),
     form |-> f, l |-> l, r |-> r]
Lone(a) == [value |-> PyStr(AtomText(a)), form |-> "atom", l |-> a, r |-> NoAtom]
Unparsable(text) == [value |-> PyStr(text), form |-> "syntax_error", l |-> NoAtom, r |-> NoAtom]
NotText(v) == [value |-> v, form |-> "syntax_error", l |-> NoAtom, r |-> NoAtom]

-----------------------------------------------------------------------------
(* Query execution.  What the database does with a query is the            *)
(* environment: cursor.execute raises, or the cursor has no description    *)
(* (no result set), or it has the column names and the fetched tuples.     *)

Raises(text) == [raises |-> TRUE, exc |-> text, described |-> FALSE,
                 columns |-> <<>>, fetched |-> <<>>]
NoResultSet == [raises |-> FALSE, exc |-> "", described |-> FALSE,
                columns |-> <<>>, fetched |-> <<>>]
ResultSet(cols, tuples) == [raises |-> FALSE, exc |-> "", described |-> TRUE,
                            columns |-> cols, fetched |-> tuples]

RECURSIVE Zip(_, _, _)
\* dict(zip(columns, row)), from column n on: a column name met again keeps
\* its place and takes the later value
Zip(columns, row, n) ==
    IF n > Len(columns) \/ n > Len(row) THEN <<>>
    ELSE LET rest == Zip(columns, row, n + 1)
         IN  IF Has(rest, columns[n])
             THEN <<[k |-> columns[n], v |-> Get(rest, columns[n])]>>
                  \o SelectSeq(rest, LAMBDA item : item.k # columns[n])
             ELSE <<[k |-> columns[n], v |-> row[n]]>> \o rest

\* execute_query
execute_query(db) ==
    IF db.raises THEN [raised |-> TRUE, exc |-> db.exc, rows |-> <<>>, columns |-> <<>>]
    ELSE IF ~db.described THEN [raised |-> FALSE, exc |-> "", rows |-> <<>>, columns |-> <<>>]
    ELSE [raised |-> FALSE, exc |-> "",
          rows |-> [n \in 1..Len(db.fetched) |-> Zip(db.columns, db.fetched[n], 1)],
          columns |-> db.columns]

-----------------------------------------------------------------------------
(* The test runner.  A run is the record below: the TestResult being       *)
(* built, the rows collected per step, the connection cache and the        *)
(* driver's handles, and the record of what the run did: the steps whose   *)
(* SQL was rendered, the steps whose query was executed (with what the     *)
(* database answered), and the errors met.  "outcome" says how the code    *)
(* run so far ended: it goes on, it returned the result, or it raised.     *)

\* _resolve_connection
_resolve_connection(meta, sh) ==
    IF "connection" \in meta.keys THEN resolve(sh, meta.connection)
    ELSE IF "server" \notin meta.keys
    THEN [raised |-> TRUE, exc |-> "'server'", info |-> NoInfo]
    ELSE [raised |-> FALSE, exc |-> "",
          info |-> [NoInfo EXCEPT
                      !.keys = {"server", "database", "username", "password",
                                "trusted_connection", "driver",
                                "trust_server_certificate"},
                      !.server = meta.server,
                      !.database = MetaGet(meta, "database", PyStr("master")),
                      !.username = MetaGet(meta, "username", PyNone),
                      !.password = MetaGet(meta, "password", PyNone),
                      !.trusted_connection =
                          MetaGet(meta, "trusted_connection", PyBool(FALSE)),
                      !.driver = MetaGet(meta, "driver", PyStr(DefaultDriver)),
                      !.trust_server_certificate =
                          MetaGet(meta, "trust_server_certificate", PyBool(TRUE))]]

\* StepResult(...)
StepResult(step_name, conn_info, sql, rows, columns, error) ==
    [step_name |-> step_name,
     server |-> InfoGet(conn_info, "server", PyStr("?")),
     database |-> InfoGet(conn_info, "database", PyStr("?")),
     sql |-> sql, rows |-> rows, columns |-> columns, error |-> error]

\* the tags run_test gives the result: text is split at its commas
ResultTags(meta) ==
    IF "tags" \notin meta.keys THEN NoTags
    ELSE IF meta.tags.kind = "str"
    THEN LET parts == Split(meta.tags.text, 1, "")
         IN  TagList([n \in 1..Len(parts) |-> PyStr(Strip(parts[n]))])
    ELSE meta.tags

\* the TestResult run_test creates
NewResult(meta) ==
    [test_name |-> meta.test_name, file_path |-> meta._filepath,
     passed |-> FALSE, message |-> "", steps |-> <<>>, tags |-> ResultTags(meta)]

\* a run about to start, on a connection manager with cache c and handles hs
NewRun(meta, c, hs) ==
    [result |-> NewResult(meta), collected |-> <<>>, cache |-> c, handles |-> hs,
     rendered |-> <<>>, executed |-> <<>>, errors |-> <<>>, evaluated |-> FALSE,
     outcome |-> "continue", exc |-> ""]

\* raise: the run ends with the exception, recorded among the errors met
Raise(run, text) == [run EXCEPT !.outcome = "raised", !.exc = text,
                                !.errors = Append(@, text)]

\* the connection of a step of _run_multistep
StepConnection(meta, sh, step_def) ==
    IF "connection" \in step_def.keys /\ step_def.connection # ""
    THEN IF Has(meta.connections, step_def.connection)
         THEN [raised |-> FALSE, exc |-> "",
               info |-> Get(meta.connections, step_def.connection)]
         ELSE resolve(sh, ByName(step_def.connection))
    ELSE _resolve_connection(meta, sh)

\* one pass of the loop of _run_multistep, for step_def
multistep_step(meta, sh, run, step_def, connect_ok, db) ==
    LET step_name == step_def.name
        ci == StepConnection(meta, sh, step_def)
        gc == get_connection(run.cache, run.handles, ci.info, connect_ok)
        connected == [run EXCEPT !.cache = gc.cache, !.handles = gc.handles]
        sql_template == IF Has(meta._sql_steps, step_name)
                        THEN Get(meta._sql_steps, step_name) ELSE ""
        r == render_sql(sql_template, run.collected)
        tried == [connected EXCEPT
                    !.rendered = Append(@, [step_name |-> step_name, raised |-> r.raised])]
        q == execute_query(db)
        error == IF q.raised THEN PyStr(q.exc) ELSE PyNone
        ran == [tried EXCEPT
                  !.result.steps = Append(@, StepResult(step_name, ci.info, r.sql,
                                                        q.rows, q.columns, error)),
                  !.collected = Put(@, step_name, q.rows),
                  !.executed = Append(@, [step_name |-> step_name, raised |-> q.raised,
                                          exc |-> q.exc, rows |-> q.rows]),
                  !.errors = IF q.raised THEN Append(@, q.exc) ELSE @]
    IN  IF "name" \notin step_def.keys THEN Raise(run, "'name'")
        ELSE IF ci.raised THEN Raise(run, ci.exc)
        ELSE IF gc.raised THEN Raise(run, gc.exc)
        ELSE IF sql_template = ""
        THEN Raise(connected, "No SQL body found for step '" \o step_name \o "'")
        ELSE IF r.raised THEN Raise(tried, r.exc)
        ELSE IF Truthy(error)
        THEN [ran EXCEPT !.result.passed = FALSE,
                         !.result.message = "Step '" \o step_name \o "' failed: "
                                            \o Format(error),
                         !.outcome = "returned"]
        ELSE ran

\* the end of _run_multistep, after the loop
multistep_verdict(meta, run) ==
    IF "success_expression" \in meta.keys /\ Truthy(meta.success_expression.value)
    THEN LET e == evaluate_expression(meta.success_expression, run.collected)
             v == Eval(meta.success_expression, run.collected)
         IN  [run EXCEPT !.result.passed = e.passed, !.result.message = e.message,
                         !.evaluated = TRUE, !.outcome = "returned",
                         !.errors = IF v.raised THEN Append(@, v.exc) ELSE @]
    ELSE IF meta.steps = <<>> THEN Raise(run, "list index out of range")
    ELSE LET last_step == meta.steps[Len(meta.steps)].name
             e == evaluate_simple_test(meta, StepRows(run.collected, last_step))
         IN  [run EXCEPT !.result.passed = e.passed, !.result.message = e.message,
                         !.evaluated = TRUE, !.outcome = "returned"]

\* _run_simple
_run_simple(meta, sh, run, connect_ok, db) ==
    LET ci == _resolve_connection(meta, sh)
        gc == get_connection(run.cache, run.handles, ci.info, connect_ok)
        connected == [run EXCEPT !.cache = gc.cache, !.handles = gc.handles]
        q == execute_query(db)
        ran == [connected EXCEPT
                  !.result.steps = Append(@, StepResult("query", ci.info, meta._sql,
                                                        q.rows, q.columns, PyNone)),
                  !.executed = Append(@, [step_name |-> "query", raised |-> FALSE,
                                          exc |-> "", rows |-> q.rows])]
        steps == <<[k |-> "query", v |-> q.rows]>>
        e == IF "success_expression" \in meta.keys
             THEN evaluate_expression(meta.success_expression, steps)
             ELSE evaluate_simple_test(meta, q.rows)
    IN  IF ci.raised THEN Raise(run, ci.exc)
        ELSE IF gc.raised THEN Raise(run, gc.exc)
        ELSE IF "_sql" \notin meta.keys THEN Raise(connected, "'_sql'")
        ELSE IF q.raised
        THEN Raise([connected EXCEPT
                      !.executed = Append(@, [step_name |-> "query", raised |-> TRUE,
                                              exc |-> q.exc, rows |-> <<>>])],
                   q.exc)
        ELSE [ran EXCEPT !.result.passed = e.passed, !.result.message = e.message,
                         !.evaluated = TRUE, !.outcome = "returned",
                         !.errors = IF /\ "success_expression" \in meta.keys
                                       /\ Eval(meta.success_expression, steps).raised
                                    THEN Append(@, Eval(meta.success_expression, steps).exc)
                                    ELSE @]

\* the except clause of run_test: an exception from the run fails the test
Caught(run) ==
    IF run.outcome = "raised"
    THEN [run EXCEPT !.result.passed = FALSE,
                     !.result.message = "Unhandled error: " \o run.exc,
                     !.outcome = "returned"]
    ELSE run

-----------------------------------------------------------------------------
(* The connection manager on its own: any sequence of get_connection and   *)
(* close_all calls on one ConnectionManager.                               *)

TrustedInfo ==
    [NoInfo EXCEPT !.keys = {"server", "database", "trusted_connection"},
                   !.server = PyStr("s1"), !.database = PyStr("db"),
                   !.trusted_connection = PyBool(TRUE)]

SqlAuthInfo ==
    [NoInfo EXCEPT !.keys = {"server", "database", "username", "password"},
                   !.server = PyStr("s1"), !.database = PyStr("db"),
                   !.username = PyStr("u"), !.password = PyStr("p")]

\* the descriptors get_connection is called with
Descriptors ==
    { TrustedInfo,
      \* the default driver spelled out: the same connection string
      [TrustedInfo EXCEPT !.keys = @ \cup {"driver"}, !.driver = PyStr(DefaultDriver)],
      \* no database: "master"
      [TrustedInfo EXCEPT !.keys = @ \ {"database"}, !.database = PyNone],
      \* "master" and the default certificate flag spelled out
      [TrustedInfo EXCEPT !.keys = @ \cup {"trust_server_certificate"},
                          !.database = PyStr("master"),
                          !.trust_server_certificate = PyBool(TRUE)],
      SqlAuthInfo,
      [SqlAuthInfo EXCEPT !.keys = @ \cup {"trusted_connection"},
                          !.trusted_connection = PyBool(FALSE)],
      [TrustedInfo EXCEPT !.keys = @ \cup {"trust_server_certificate"},
                          !.trust_server_certificate = PyBool(FALSE)],
      [TrustedInfo EXCEPT !.keys = @ \cup {"odbc_extras"},
                          !.odbc_extras = <<[k |-> "Encrypt", v |-> PyStr("yes")]>>],
      \* no server, and SQL authentication without a user name: KeyError
      [TrustedInfo EXCEPT !.keys = @ \ {"server"}, !.server = PyNone],
      [SqlAuthInfo EXCEPT !.keys = @ \ {"username"}, !.username = PyNone] }

\* the connections file of the model
SharedConnections ==
    <<[k |-> "warehouse", v |-> TrustedInfo], [k |-> "sales", v |-> SqlAuthInfo]>>

\* no pure function is under test
FnIdle == args = <<>> /\ ret = <<>>

\* no connection manager is in use
ConnIdle ==
    shared = <<>> /\ cache = <<>> /\ handles = <<>> /\ last_call = <<>> /\ threads = <<>>

\* no test is being run
RunIdle == cur_meta = <<>> /\ cur_run = <<>> /\ pc = "idle" /\ step_ix = 0

\* no batch is being run
CliIdle ==
    /\ test_files = <<>> /\ tag_filter = {} /\ results = <<>>
    /\ file_ix = 0 /\ cli_pc = "idle" /\ exit_code = -1

NoCall ==
    [op |-> "none", info |-> NoInfo, raised |-> FALSE, exc |-> "", conn |-> 0,
     failing |-> {}]

ConnInit ==
    /\ shared = SharedConnections
    /\ cache = <<>>
    /\ handles = <<>>
    /\ last_call = NoCall
    /\ threads = <<>>
    /\ FnIdle
    /\ RunIdle
    /\ CliIdle

\* conn_mgr.get_connection(info)
GetConnection ==
    \E info \in Descriptors, connect_ok \in BOOLEAN :
        LET r == get_connection(cache, handles, info, connect_ok)
        IN  /\ Len(r.handles) <= MaxOpens
            /\ cache' = r.cache
            /\ handles' = r.handles
            /\ last_call' = [NoCall EXCEPT !.op = "get_connection", !.info = info,
                                !.raised = r.raised, !.exc = r.exc, !.conn = r.conn]
            /\ UNCHANGED <<shared, threads, fnVars, runVars, cliVars>>

\* conn_mgr.close_all(), where close() raises for the handles in `failing`
CloseAll ==
    \E failing \in SUBSET Cached(cache) :
        LET r == close_all(cache, handles, failing)
        IN  /\ cache' = r.cache
            /\ handles' = r.handles
            /\ last_call' = [NoCall EXCEPT !.op = "close_all", !.raised = r.raised,
                                !.failing = failing]
            /\ UNCHANGED <<shared, threads, fnVars, runVars, cliVars>>

ConnNext == GetConnection \/ CloseAll

SpecConn == ConnInit /\ [][ConnNext]_vars

\* the handles of connection string s that are open: connected, and close()
\* never called on them
Live(s) == {h \in 1..Len(handles) : handles[h].str = s /\ handles[h].status = "open"}

ConnStrings == {handles[h].str : h \in 1..Len(handles)}

-----------------------------------------------------------------------------
(* get_connection called from two threads on one ConnectionManager.  A     *)
(* thread runs the statements of get_connection one at a time, and the     *)
(* other thread may run between any two of them: pyodbc.connect waits for  *)
(* the server, and nothing in get_connection holds a lock.                 *)

Callers == {"t1", "t2"}

\* a thread about to call get_connection(info)
Calling(info) ==
    [pc |-> "build", info |-> info, conn_str |-> "", opened |-> 0, conn |-> 0,
     raised |-> FALSE, exc |-> ""]

ConcInit ==
    /\ shared = SharedConnections
    /\ cache = <<>>
    /\ handles = <<>>
    /\ last_call = NoCall
    /\ threads \in [Callers -> {Calling(info) : info \in Descriptors}]
    /\ FnIdle
    /\ RunIdle
    /\ CliIdle

\* conn_str = self._build_connection_string(conn_info)
ThreadBuild ==
    \E t \in Callers :
        LET b == _build_connection_string(threads[t].info)
        IN  /\ threads[t].pc = "build"
            /\ threads' =
                 [threads EXCEPT ![t] =
                    IF b.raised
                    THEN [@ EXCEPT !.pc = "done", !.raised = TRUE, !.exc = b.exc]
                    ELSE [@ EXCEPT !.pc = "check", !.conn_str = b.str]]
            /\ UNCHANGED <<shared, cache, handles, last_call, fnVars, runVars, cliVars>>

\* if conn_str not in self._cache:
ThreadCheck ==
    \E t \in Callers :
        /\ threads[t].pc = "check"
        /\ threads' =
             [threads EXCEPT ![t].pc =
                IF threads[t].conn_str \in DOMAIN cache THEN "return" ELSE "connect"]
        /\ UNCHANGED <<shared, cache, handles, last_call, fnVars, runVars, cliVars>>

\* pyodbc.connect(conn_str, timeout=30), the right-hand side of the store
ThreadConnect ==
    \E t \in Callers, connect_ok \in BOOLEAN :
        /\ threads[t].pc = "connect"
        /\ IF connect_ok
           THEN /\ handles' = Connect(handles, threads[t].conn_str)
                /\ threads' = [threads EXCEPT ![t].pc = "store",
                                              ![t].opened = Len(handles) + 1]
           ELSE /\ handles' = handles
                /\ threads' = [threads EXCEPT ![t].pc = "done", ![t].raised = TRUE,
                                              ![t].exc = ConnectError]
        /\ UNCHANGED <<shared, cache, last_call, fnVars, runVars, cliVars>>

\* self._cache[conn_str] = <the connection>
ThreadStore ==
    \E t \in Callers :
        LET str == threads[t].conn_str
        IN  /\ threads[t].pc = "store"
            /\ cache' = [s \in DOMAIN cache \cup {str} |->
                            IF s = str THEN threads[t].opened ELSE cache[s]]
            /\ threads' = [threads EXCEPT ![t].pc = "return"]
            /\ UNCHANGED <<shared, handles, last_call, fnVars, runVars, cliVars>>

\* return self._cache[conn_str]
ThreadReturn ==
    \E t \in Callers :
        /\ threads[t].pc = "return"
        /\ threads' = [threads EXCEPT ![t].pc = "done",
                                      ![t].conn = cache[threads[t].conn_str]]
        /\ UNCHANGED <<shared, cache, handles, last_call, fnVars, runVars, cliVars>>

ConcNext == ThreadBuild \/ ThreadCheck \/ ThreadConnect \/ ThreadStore \/ ThreadReturn

SpecConc == ConcInit /\ [][ConcNext]_vars

-----------------------------------------------------------------------------
(* evaluate_simple_test on its own: every definition and result set of the *)
(* sets below, then one call.                                              *)

\* the rows a query returns in the model
EvalRows ==
    { <<[k |-> "success", v |-> PyInt(0)]>>,
      <<[k |-> "success", v |-> PyInt(1)], [k |-> "status", v |-> PyBool(TRUE)]>>,
      <<[k |-> "success", v |-> PyStr("0")], [k |-> "status", v |-> PyInt(1)]>> }

RECURSIVE SeqsUpTo(_, _)
\* the sequences over S of length at most n
SeqsUpTo(S, n) ==
    IF n = 0 THEN {<<>>}
    ELSE LET shorter == SeqsUpTo(S, n - 1)
         IN  shorter \cup {Append(q, x) : q \in shorter, x \in S}

\* the keys of a definition that evaluate_simple_test reads
EvalMetas ==
    { [NoMeta EXCEPT !.keys = ks,
                     !.success_column = IF "success_column" \in ks THEN PyStr("status") ELSE PyNone,
                     !.success_value = IF "success_value" \in ks THEN PyInt(1) ELSE PyNone,
                     !.allow_empty = IF "allow_empty" \in ks THEN PyBool(ae) ELSE PyNone]
        : ks \in SUBSET {"success_column", "success_value", "allow_empty"},
          ae \in BOOLEAN }

NotCalled == [called |-> FALSE]

EvalInit ==
    /\ args \in {[meta |-> m, rows |-> r] : m \in EvalMetas, r \in SeqsUpTo(EvalRows, MaxRows)}
    /\ ret = NotCalled
    /\ ConnIdle
    /\ RunIdle
    /\ CliIdle

\* passed, message = evaluate_simple_test(meta, rows)
EvaluateSimpleTest ==
    /\ ~ret.called
    /\ ret' = [called |-> TRUE, out |-> evaluate_simple_test(args.meta, args.rows)]
    /\ UNCHANGED <<args, connVars, runVars, cliVars>>

EvalNext == EvaluateSimpleTest

SpecEval == EvalInit /\ [][EvalNext]_vars

-----------------------------------------------------------------------------
(* render_sql on its own: a template made of the pieces below, the results *)
(* of the steps before it, then one call.                                  *)

Text(x) == [is_ref |-> FALSE, text |-> x, step_name |-> "", column |-> ""]
Ref(s, c) ==
    [is_ref |-> TRUE, text |-> "{{step." \o s \o "." \o c \o "}}",
     step_name |-> s, column |-> c]

\* the pieces of a template: text that holds no placeholder, and placeholders
Pieces ==
    { Text("SELECT "), Text("{{step.a}} = "),
      Ref("a", "n"), Ref("a", "t"), Ref("b", "n") }

RECURSIVE Concat(_)
\* the text of a sequence of pieces of text
Concat(texts) == IF texts = <<>> THEN "" ELSE texts[1] \o Concat(Tail(texts))

TemplateOf(pieces) == Concat([n \in 1..Len(pieces) |-> pieces[n].text])

\* the results of the steps run so far
RenderResults ==
    { <<>>,
      <<[k |-> "a", v |-> <<>>]>>,
      <<[k |-> "a", v |-> << <<[k |-> "n", v |-> PyInt(5)],
                              [k |-> "t", v |-> PyStr("x")]>> >>]>>,
      \* a null, and text that reads as a placeholder
      <<[k |-> "a", v |-> << <<[k |-> "n", v |-> PyNone],
                              [k |-> "t", v |-> PyStr("{{step.b.n}}")]>> >>],
        [k |-> "b", v |-> << <<[k |-> "n", v |-> PyInt(7)]>> >>]>>,
      \* "t" is a column of the second row only
      <<[k |-> "a", v |-> << <<[k |-> "n", v |-> PyInt(5)]>>,
                             <<[k |-> "n", v |-> PyInt(6)],
                               [k |-> "t", v |-> PyStr("y")]>> >>],
        [k |-> "b", v |-> << <<[k |-> "n", v |-> PyBool(TRUE)]>> >>]>> }

RenderInit ==
    /\ args \in {[pieces |-> ps, sql_template |-> TemplateOf(ps), step_results |-> sr] :
                    ps \in SeqsUpTo(Pieces, MaxPieces), sr \in RenderResults}
    /\ ret = NotCalled
    /\ ConnIdle
    /\ RunIdle
    /\ CliIdle

\* sql = render_sql(sql_template, step_results)
RenderSql ==
    /\ ~ret.called
    /\ ret' = [called |-> TRUE, out |-> render_sql(args.sql_template, args.step_results)]
    /\ UNCHANGED <<args, connVars, runVars, cliVars>>

RenderNext == RenderSql

SpecRender == RenderInit /\ [][RenderNext]_vars

-----------------------------------------------------------------------------
(* evaluate_expression on its own: an expression and step results of the   *)
(* sets below, then one call.                                              *)

ExprAtoms ==
    { Cell("source", 0, "cnt"), Cell("target", 0, "cnt"), Cell("target", 1, "cnt"),
      Cell("other", 0, "cnt"), Cell("source", 0, "total"),
      LenOf("target"), Literal(1), Name("open") }

Expressions ==
    {Binary(f, l, r) : f \in {"eq", "sub"}, l \in ExprAtoms, r \in ExprAtoms}
    \cup {Lone(a) : a \in ExprAtoms}
    \cup {Unparsable("steps["), Unparsable(""), NotText(PyInt(5)), NotText(PyNone)}

CountRow(v) == <<[k |-> "cnt", v |-> v]>>

ExprSteps ==
    { <<>>,
      <<[k |-> "source", v |-> <<CountRow(PyInt(10))>>],
        [k |-> "target", v |-> <<CountRow(PyInt(10))>>]>>,
      <<[k |-> "source", v |-> <<CountRow(PyInt(10))>>],
        [k |-> "target", v |-> <<CountRow(PyInt(9))>>]>>,
      <<[k |-> "source", v |-> <<CountRow(PyStr("x"))>>],
        [k |-> "target", v |-> <<>>]>>,
      <<[k |-> "target", v |-> <<CountRow(PyInt(0)), CountRow(PyNone)>>],
        [k |-> "source", v |-> <<CountRow(PyInt(1)), CountRow(PyInt(2))>>]>> }

ExprInit ==
    /\ args \in {[expr |-> e, steps |-> st] : e \in Expressions, st \in ExprSteps}
    /\ ret = NotCalled
    /\ ConnIdle
    /\ RunIdle
    /\ CliIdle

\* passed, message = evaluate_expression(expr, steps)
EvaluateExpression ==
    /\ ~ret.called
    /\ ret' = [called |-> TRUE, out |-> evaluate_expression(args.expr, args.steps)]
    /\ UNCHANGED <<args, connVars, runVars, cliVars>>

ExprNext == EvaluateExpression

SpecExpr == ExprInit /\ [][ExprNext]_vars

-----------------------------------------------------------------------------
(* resolve_env_vars on its own: a value made of the strings below, an      *)
(* environment, then one call.                                             *)

Plain(x) == [is_var |-> FALSE, text |-> x, var_name |-> "", has_default |-> FALSE,
             default |-> ""]
Var(n) == [is_var |-> TRUE, text |-> "${" \o n \o "}", var_name |-> n,
           has_default |-> FALSE, default |-> ""]
VarOr(n, d) == [is_var |-> TRUE, text |-> "${" \o n \o ":" \o d \o "}", var_name |-> n,
                has_default |-> TRUE, default |-> d]

\* the parts of a string: text that holds no placeholder and starts none,
\* and placeholders
Parts ==
    { Plain("db:"), Plain("}"), Var("HOST"), VarOr("HOST", "local"), VarOr("PORT", ""),
      Var("PORT"), VarOr("USER", "${HOST") }

PartsText(parts) == Concat([n \in 1..Len(parts) |-> parts[n].text])

\* the environments: empty; HOST set; HOST set to the empty text and PORT
\* to text that reads as a placeholder
Environments ==
    { <<>>,
      <<[k |-> "HOST", v |-> "srv"]>>,
      <<[k |-> "HOST", v |-> ""], [k |-> "PORT", v |-> "${HOST}"]>> }

\* the values resolved: the string alone, and the string inside a mapping
\* that also holds a number, a key that reads as a placeholder, and a list
Shapes(x) ==
    { StrNode(x),
      DictNode(<<[k |-> "port", v |-> LeafNode(PyInt(1433))],
                 [k |-> "${HOST}", v |-> ListNode(<<StrNode(x), LeafNode(PyNone),
                                                    StrNode("${HOST:h}")>>)],
                 [k |-> "server", v |-> StrNode("${PORT:1433}")]>>) }

EnvInit ==
    /\ args \in UNION {{[parts |-> ps, value |-> v, environ |-> e] :
                          v \in Shapes(PartsText(ps)), e \in Environments}
                       : ps \in SeqsUpTo(Parts, MaxParts)}
    /\ ret = NotCalled
    /\ ConnIdle
    /\ RunIdle
    /\ CliIdle

\* resolve_env_vars(value)
ResolveEnvVars ==
    /\ ~ret.called
    /\ ret' = [called |-> TRUE, out |-> resolve_env_vars(args.value, args.environ)]
    /\ UNCHANGED <<args, connVars, runVars, cliVars>>

EnvNext == ResolveEnvVars

SpecEnv == EnvInit /\ [][EnvNext]_vars

-----------------------------------------------------------------------------
(* parse_test_file on its own: a file made of a head and of the lines      *)
(* below, an environment, then one call.                                   *)

MaxLines == 3

Line(x, is_marker, name) == [text |-> x, is_marker |-> is_marker, name |-> name]

\* the lines of a body: step markers that name a step, in several
\* spellings, and lines that are none
Lines ==
    { Line("--- step: a\n", TRUE, "a"),
      Line("---STEP :  b \n", TRUE, "b"),
      Line("SELECT 1\n", FALSE, ""),
      Line("  SELECT 2 \n", FALSE, ""),
      Line("SELECT '${X}'\n", FALSE, ""),
      Line("--- step:\n", FALSE, ""),
      Line("\n", FALSE, "") }

\* what comes before the body: a metadata block holding a mapping, one
\* with a placeholder in it, one holding a list, an empty one, one that is
\* never closed, and none
Heads ==
    { [text |-> "---\ntest_name: t\n---\n", block |-> TRUE, mapping |-> TRUE],
      [text |-> "--- \ntest_name: t\npassword: ${PW}\n---\n\n", block |-> TRUE,
       mapping |-> TRUE],
      [text |-> "---\n- t\n---\n", block |-> TRUE, mapping |-> FALSE],
      [text |-> "---\n\n---\n", block |-> TRUE, mapping |-> FALSE],
      [text |-> "---\ntest_name: t\n", block |-> FALSE, mapping |-> FALSE],
      [text |-> "", block |-> FALSE, mapping |-> FALSE] }

\* the environments: nothing set, and X and PW set
ParseEnvironments ==
    { <<>>, <<[k |-> "X", v |-> "x1"], [k |-> "PW", v |-> "secret"]>> }

LinesText(lines) == Concat([n \in 1..Len(lines) |-> lines[n].text])

ParseInit ==
    /\ args \in {[head |-> h, lines |-> ls, filepath |-> "t.sql", environ |-> e] :
                    h \in Heads, ls \in SeqsUpTo(Lines, MaxLines), e \in ParseEnvironments}
    /\ ret = NotCalled
    /\ ConnIdle
    /\ RunIdle
    /\ CliIdle

\* parse_test_file(filepath)
ParseTestFile ==
    /\ ~ret.called
    /\ ret' = [called |-> TRUE,
               out |-> parse_test_file(args.head.text \o LinesText(args.lines),
                                       args.filepath, args.environ)]
    /\ UNCHANGED <<args, connVars, runVars, cliVars>>

ParseNext == ParseTestFile

SpecParse == ParseInit /\ [][ParseNext]_vars

-----------------------------------------------------------------------------
(* run_test on its own: one definition of the sets below is run on a new   *)
(* ConnectionManager.  A multi-step run takes one step of the model per    *)
(* pass of the loop of _run_multistep and one for what follows the loop.   *)

\* bound: the steps a multi-step definition declares
MaxSteps == 2

Step(n, c) == [keys |-> {"name", "connection"}, name |-> n, connection |-> c]
StepNoConnection(n) == [keys |-> {"name"}, name |-> n, connection |-> ""]

\* the connections a definition declares of its own
LocalConnections ==
    <<[k |-> "src", v |-> [SqlAuthInfo EXCEPT !.server = PyStr("s2")]]>>

\* "a" runs on a connection of the definition, "b" on the definition's
\* default connection, "my-step" on a shared one
StepDefs == { Step("a", "src"), StepNoConnection("b"), Step("my-step", "warehouse") }

\* the SQL bodies of the steps, by name
SqlBodies ==
    { \* no placeholder, and no body for "my-step"
      <<[k |-> "a", v |-> "SELECT 1"], [k |-> "b", v |-> "SELECT 2"]>>,
      \* b refers to a, "my-step" to both
      <<[k |-> "a", v |-> "SELECT 1"],
        [k |-> "b", v |-> "SELECT {{step.a.cnt}}"],
        [k |-> "my-step", v |-> "SELECT {{step.b.cnt}}, {{step.a.cnt}}"]>>,
      \* a refers to "my-step", b to itself
      <<[k |-> "a", v |-> "SELECT {{step.my-step.cnt}}"],
        [k |-> "b", v |-> "SELECT {{step.b.cnt}}"],
        [k |-> "my-step", v |-> "SELECT 3"]>> }

\* what the database answers to a query
DbOutcomes ==
    { Raises(""), Raises("boom"), NoResultSet,
      ResultSet(<<"cnt", "success">>, << <<PyInt(10), PyInt(0)>> >>),
      ResultSet(<<"cnt", "success">>, << <<PyInt(9), PyInt(1)>> >>) }

\* the success_expression of a definition: none, or one of these
MultistepExpressions ==
    { Unparsable(""), Binary("eq", Cell("a", 0, "cnt"), Cell("b", 0, "cnt")) }
SimpleExpressions ==
    { Unparsable(""), Lone(LenOf("query")),
      Binary("eq", Cell("query", 0, "success"), Literal(0)) }

\* the definition's default connection: a shared name, or an unknown one
NamedDefaults == { ByName("warehouse"), ByName("nope") }

\* the keys every definition of the model holds
BaseMeta ==
    [NoMeta EXCEPT !.keys = {"test_name", "_filepath"},
                   !.test_name = "t", !._filepath = "tests/t.sql"]

WithExpression(m, e) ==
    [m EXCEPT !.keys = @ \cup {"success_expression"}, !.success_expression = e]

WithAllowEmpty(m) ==
    [m EXCEPT !.keys = @ \cup {"allow_empty"}, !.allow_empty = PyBool(TRUE)]

WithConnection(m, c) ==
    [m EXCEPT !.keys = @ \cup {"connection"}, !.connection = c]

\* inline connection fields: a server, and no user name
WithServer(m) ==
    [m EXCEPT !.keys = @ \cup {"server"}, !.server = PyStr("s1")]

\* inline connection fields: integrated authentication
WithTrusted(m) ==
    [m EXCEPT !.keys = @ \cup {"trusted_connection"}, !.trusted_connection = PyBool(TRUE)]

\* inline connection fields: a user name and a password
WithCredentials(m) ==
    [m EXCEPT !.keys = @ \cup {"username", "password"},
              !.username = PyStr("u"), !.password = PyStr("p")]

\* every choice of the optional keys of a definition
Variants(base, exprs) ==
    LET withExpr == {base} \cup {WithExpression(base, e) : e \in exprs}
    IN  withExpr \cup {WithAllowEmpty(m) : m \in withExpr}

MultistepMetas ==
    UNION { Variants([WithConnection(BaseMeta, c) EXCEPT
                        !.keys = @ \cup {"connections", "steps", "_sql_steps"},
                        !.connections = LocalConnections,
                        !.steps = st, !._sql_steps = bodies],
                     MultistepExpressions)
            : c \in NamedDefaults, st \in SeqsUpTo(StepDefs, MaxSteps),
              bodies \in SqlBodies }

SimpleMetas ==
    UNION { Variants([m EXCEPT !.keys = @ \cup {"_sql"}, !._sql = "SELECT 1"],
                     SimpleExpressions)
            : m \in {WithConnection(BaseMeta, c) : c \in NamedDefaults}
                    \cup {WithServer(BaseMeta), WithTrusted(WithServer(BaseMeta)),
                          WithCredentials(WithServer(BaseMeta))} }

RunMetas == MultistepMetas \cup SimpleMetas

RunInit ==
    /\ shared = SharedConnections
    /\ cache = <<>>
    /\ handles = <<>>
    /\ last_call = NoCall
    /\ threads = <<>>
    /\ cur_meta \in RunMetas
    /\ cur_run = NewRun(cur_meta, <<>>, <<>>)
    /\ pc = "run_test"
    /\ step_ix = 1
    /\ FnIdle
    /\ CliIdle

\* run_test of a definition without _sql_steps: _run_simple, and the except
\* clause of run_test
RunSimple ==
    /\ pc = "run_test"
    /\ "_sql_steps" \notin cur_meta.keys
    /\ \E connect_ok \in BOOLEAN, db \in DbOutcomes :
          cur_run' = Caught(_run_simple(cur_meta, shared, cur_run, connect_ok, db))
    /\ pc' = "done"
    /\ cache' = cur_run'.cache
    /\ handles' = cur_run'.handles
    /\ UNCHANGED <<cur_meta, step_ix, shared, last_call, threads, fnVars, cliVars>>

\* one pass of the loop of _run_multistep; the run ends here if the pass
\* returns or raises (the except clause of run_test)
MultistepStep ==
    /\ pc \in {"run_test", "loop"}
    /\ "_sql_steps" \in cur_meta.keys
    /\ step_ix <= Len(cur_meta.steps)
    /\ \E connect_ok \in BOOLEAN, db \in DbOutcomes :
          LET r == multistep_step(cur_meta, shared, cur_run, cur_meta.steps[step_ix], connect_ok, db)
          IN  /\ cur_run' = Caught(r)
              /\ pc' = IF r.outcome = "continue" THEN "loop" ELSE "done"
    /\ step_ix' = step_ix + 1
    /\ cache' = cur_run'.cache
    /\ handles' = cur_run'.handles
    /\ UNCHANGED <<cur_meta, shared, last_call, threads, fnVars, cliVars>>

\* _run_multistep after the loop: the verdict
MultistepVerdict ==
    /\ pc \in {"run_test", "loop"}
    /\ "_sql_steps" \in cur_meta.keys
    /\ step_ix > Len(cur_meta.steps)
    /\ cur_run' = Caught(multistep_verdict(cur_meta, cur_run))
    /\ pc' = "done"
    /\ UNCHANGED <<cur_meta, step_ix, connVars, fnVars, cliVars>>

RunNext == RunSimple \/ MultistepStep \/ MultistepVerdict

SpecRun == RunInit /\ [][RunNext]_vars

-----------------------------------------------------------------------------
(* cmd_run: the files of a directory are discovered, then the loop takes   *)
(* them one by one: parse, tag filter, run_test, append.  run_test is the  *)
(* steps of the section above, on the ConnectionManager of the batch.      *)

\* bound: the files of the test directory
MaxFiles == 2

\* a file of the directory: rank is its place in the order of the paths
File(r, path, ext, parses, exc, m) ==
    [rank |-> r, path |-> path, stem |-> SubSeq(path, 7, Len(path) - Len(ext) - 1),
     ext |-> ext, parses |-> parses, exc |-> exc,
     meta |-> [m EXCEPT !._filepath = path]]

WithTags(m, t) == [m EXCEPT !.keys = @ \cup {"tags"}, !.tags = t]

\* a simple definition on the shared connection "warehouse"
SimpleMeta ==
    [WithConnection(BaseMeta, ByName("warehouse")) EXCEPT
        !.keys = @ \cup {"_sql"}, !._sql = "SELECT 1"]

\* a multi-step definition of one step
OneStepMeta ==
    [WithConnection(BaseMeta, ByName("warehouse")) EXCEPT
        !.keys = @ \cup {"connections", "steps", "_sql_steps"},
        !.connections = LocalConnections,
        !.steps = <<Step("a", "src")>>,
        !._sql_steps = <<[k |-> "a", v |-> "SELECT 1"]>>]

Files ==
    { File(1, "tests/a_bad.sql", "sql", FALSE,
           "No YAML frontmatter found in tests/a_bad.sql", NoMeta),
      File(2, "tests/b_plain.sql", "sql", TRUE, "", SimpleMeta),
      File(3, "tests/c_list.sql", "sql", TRUE, "",
           WithTags(SimpleMeta, TagList(<<PyStr("Smoke"), PyStr("etl")>>))),
      File(4, "tests/d_text.yaml", "yaml", TRUE, "", WithTags(SimpleMeta, TagText("smoke"))),
      File(5, "tests/e_steps.yaml", "yaml", TRUE, "",
           WithTags(OneStepMeta, TagList(<<PyStr("etl")>>))),
      File(6, "tests/f_number.sql", "sql", TRUE, "", WithTags(SimpleMeta, TagScalar)) }

\* the directories of the model, and the patterns asked for ("*.sql" is the
\* default)
Directories == {d \in SUBSET Files : Cardinality(d) <= MaxFiles}
Patterns == {"sql", "yaml"}

\* what --tags gives: no filter (the empty set), or the set of the tags
TagFilters == {{}, {"smoke"}, {"s"}}

RECURSIVE Sorted(_)
\* sorted(files)
Sorted(files) ==
    IF files = {} THEN <<>>
    ELSE LET first == CHOOSE f \in files : \A o \in files : f.rank <= o.rank
         IN  <<first>> \o Sorted(files \ {first})

\* directory.glob("*." + ext)
Glob(directory, ext) == {f \in directory : f.ext = ext}

\* discover_tests
discover_tests(directory, pattern) ==
    Sorted(Glob(directory, pattern)) \o Sorted(Glob(directory, "yaml"))
    \o Sorted(Glob(directory, "yml")) \o Sorted(Glob(directory, "txt"))

\* {t.lower() for t in meta.get("tags", [])}
test_tags(meta) ==
    LET tags == MetaGet(meta, "tags", NoTags)
    IN  IF tags.kind = "int"
        THEN [raised |-> TRUE, exc |-> "'int' object is not iterable", tags |-> {}]
        ELSE IF tags.kind = "str"
        THEN [raised |-> FALSE, exc |-> "",
              tags |-> {Lower(SubSeq(tags.text, n, n)) : n \in 1..Len(tags.text)}]
        ELSE IF \E n \in 1..Len(tags.items) : tags.items[n].t # "str"
        THEN [raised |-> TRUE, exc |-> "object has no attribute 'lower'", tags |-> {}]
        ELSE [raised |-> FALSE, exc |-> "",
              tags |-> {Lower(tags.items[n].s) : n \in 1..Len(tags.items)}]

\* the TestResult of a file that does not parse
ParseFailure(file) ==
    [test_name |-> file.stem, file_path |-> file.path, passed |-> FALSE,
     message |-> "Parse error: " \o file.exc, steps |-> <<>>, tags |-> NoTags]

CliInit ==
    /\ shared = SharedConnections
    /\ cache = <<>>
    /\ handles = <<>>
    /\ last_call = NoCall
    /\ threads = <<>>
    /\ test_files \in {discover_tests(d, p) : d \in Directories, p \in Patterns}
    /\ tag_filter \in TagFilters
    /\ results = <<>>
    /\ file_ix = 1
    /\ cli_pc = "loop"
    /\ exit_code = -1
    /\ FnIdle
    /\ RunIdle

\* the loop is at a file
AtFile == cli_pc = "loop" /\ pc = "idle" /\ file_ix <= Len(test_files)

\* the file does not parse: its failure is appended
LoopParseFailure ==
    /\ AtFile
    /\ ~test_files[file_ix].parses
    /\ results' = Append(results, ParseFailure(test_files[file_ix]))
    /\ file_ix' = file_ix + 1
    /\ UNCHANGED <<connVars, fnVars, runVars, test_files, tag_filter, cli_pc, exit_code>>

\* the file parses and none of its tags is asked for: it is passed over
LoopSkip ==
    /\ AtFile
    /\ test_files[file_ix].parses
    /\ tag_filter # {}
    /\ ~test_tags(test_files[file_ix].meta).raised
    /\ tag_filter \cap test_tags(test_files[file_ix].meta).tags = {}
    /\ file_ix' = file_ix + 1
    /\ UNCHANGED <<connVars, fnVars, runVars, test_files, tag_filter, results, cli_pc, exit_code>>

\* the tags of the file cannot be read as a list of text: the exception
\* leaves cmd_run, and the interpreter exits with status 1
LoopTagError ==
    /\ AtFile
    /\ test_files[file_ix].parses
    /\ tag_filter # {}
    /\ test_tags(test_files[file_ix].meta).raised
    /\ cli_pc' = "crashed"
    /\ exit_code' = 1
    /\ UNCHANGED <<connVars, fnVars, runVars, test_files, tag_filter, results, file_ix>>

\* the file parses and is not passed over: run_test is called
LoopRunTest ==
    /\ AtFile
    /\ test_files[file_ix].parses
    /\ \/ tag_filter = {}
       \/ /\ ~test_tags(test_files[file_ix].meta).raised
          /\ tag_filter \cap test_tags(test_files[file_ix].meta).tags # {}
    /\ cur_meta' = test_files[file_ix].meta
    /\ cur_run' = NewRun(cur_meta', cache, handles)
    /\ pc' = "run_test"
    /\ step_ix' = 1
    /\ UNCHANGED <<connVars, fnVars, cliVars>>

\* run_test has returned: its result is appended
LoopAppend ==
    /\ cli_pc = "loop"
    /\ pc = "done"
    /\ results' = Append(results, cur_run.result)
    /\ file_ix' = file_ix + 1
    /\ pc' = "idle"
    /\ UNCHANGED <<connVars, fnVars, cur_meta, cur_run, step_ix, test_files,
                   tag_filter, cli_pc, exit_code>>

\* after the loop: the connections are closed and the exit status is 1 if a
\* result failed
Summary ==
    /\ cli_pc = "loop"
    /\ pc = "idle"
    /\ file_ix > Len(test_files)
    /\ \E failing \in SUBSET Cached(cache) :
          LET r == close_all(cache, handles, failing)
          IN  cache' = r.cache /\ handles' = r.handles
    /\ exit_code' = IF \E n \in 1..Len(results) : ~results[n].passed THEN 1 ELSE 0
    /\ cli_pc' = "exited"
    /\ UNCHANGED <<shared, last_call, threads, fnVars, runVars, test_files, tag_filter, results,
                   file_ix>>

CliNext ==
    \/ LoopParseFailure \/ LoopSkip \/ LoopTagError \/ LoopRunTest \/ LoopAppend
    \/ Summary
    \/ RunSimple \/ MultistepStep \/ MultistepVerdict

SpecCli == CliInit /\ [][CliNext]_vars

-----------------------------------------------------------------------------
(* C3.  Connection cache uniqueness.                                       *)

\* a get_connection call has just returned a handle
Returned == last_call.op = "get_connection" /\ ~last_call.raised

\* C3: at most one open handle exists per connection string, and it is the
\* cached one; a get_connection whose descriptor builds a cached string
\* returns the cached handle and opens nothing; one whose descriptor builds
\* another string opens exactly one new handle and caches it under that
\* string, leaving the other entries as they were.
C3_CacheUniqueness ==
    /\ [](\A s \in ConnStrings :
            /\ Cardinality(Live(s)) <= 1
            /\ Live(s) # {} => s \in DOMAIN cache /\ Live(s) = {cache[s]})
    /\ [][Returned' =>
            LET s == _build_connection_string(last_call'.info).str
            IN  IF s \in DOMAIN cache
                THEN /\ last_call'.conn = cache[s]
                     /\ handles' = handles
                     /\ cache' = cache
                ELSE /\ handles' = Append(handles, [str |-> s, status |-> "open"])
                     /\ last_call'.conn = Len(handles')
                     /\ DOMAIN cache' = DOMAIN cache \cup {s}
                     /\ cache'[s] = last_call'.conn
                     /\ \A o \in DOMAIN cache : cache'[o] = cache[o]]_vars

\* C3 witness: two strings are open, and the last call, made with the
\* descriptor that spells the default driver out, was answered with the first
\* handle, opened earlier.
C3_Witness ==
    /\ Returned
    /\ "driver" \in last_call.info.keys
    /\ Len(handles) = 2
    /\ last_call.conn = 1
    /\ handles[1].status = "open" /\ handles[2].status = "open"
    /\ handles[1].str # handles[2].str

-----------------------------------------------------------------------------
(* C10.  close_all is best-effort and total.                               *)

\* C10: close_all never raises, calls close() on every cached handle
\* whichever of them raise, and leaves the cache empty; the cache never holds
\* a handle close() was called on, so get_connection never returns one.
C10_CloseAllTotal ==
    /\ [](\A s \in DOMAIN cache : handles[cache[s]].status = "open")
    /\ [][last_call'.op = "close_all" =>
            /\ ~last_call'.raised
            /\ DOMAIN cache' = {}
            /\ \A h \in Cached(cache) :
                 handles'[h].status =
                    IF h \in last_call'.failing THEN "close_failed" ELSE "closed"]_vars
    /\ [][Returned' => handles'[last_call'.conn].status = "open"]_vars

\* C10 witness: close() raised on the first handle, and a later
\* get_connection for the same string was answered with a new handle.
C10_Witness ==
    /\ Returned
    /\ Len(handles) = 2
    /\ handles[1].status = "close_failed"
    /\ handles[2].str = handles[1].str
    /\ last_call.conn = 2

-----------------------------------------------------------------------------
(* C5.  The column/value comparison rule.                                  *)

\* the success column and value of the definition under test
SuccessColumn == MetaGet(args.meta, "success_column", PyStr("success"))
SuccessValue == MetaGet(args.meta, "success_value", PyInt(0))

\* the rows that lack the success column, and those that hold another value
Lacking == {n \in 1..Len(args.rows) : ~InRow(args.rows[n], SuccessColumn)}
Mismatching ==
    {n \in 1..Len(args.rows) \ Lacking :
        ~PyEq(Get(args.rows[n], SuccessColumn.s), SuccessValue)}

\* what the message says of mismatching row n (rows count from 0)
RowDetail(n) ==
    "Row " \o ToString(n - 1) \o ": " \o Format(SuccessColumn) \o "="
    \o Format(Get(args.rows[n], SuccessColumn.s))

\* C5: evaluate_simple_test passes iff the row list is empty and allow_empty
\* is set, or it is non-empty and every row holds the success column with the
\* success value; a row lacking the column fails the test with the report of
\* the first such row, whatever the other rows hold; a pass on a non-empty
\* list states the number of rows; a failure by mismatch lists the first 5
\* mismatching rows and no other.
C5_ColumnRule ==
    ret.called =>
        LET rows == args.rows
            out == ret.out
        IN  /\ out.passed <=>
                \/ rows = <<>> /\ Truthy(MetaGet(args.meta, "allow_empty", PyBool(FALSE)))
                \/ rows # <<>> /\ Lacking = {} /\ Mismatching = {}
            /\ Lacking # {} =>
                LET first == CHOOSE n \in Lacking : \A o \in Lacking : n <= o
                IN  out.message = "Column '" \o Format(SuccessColumn)
                                  \o "' not found in results. Columns: "
                                  \o ReprList(Keys(rows[first]))
            /\ out.passed /\ rows # <<>> =>
                out.message = "All " \o ToString(Len(rows)) \o " row(s) passed"
            /\ Lacking = {} /\ Mismatching # {} =>
                \A n \in Mismatching :
                    Contains(out.message, RowDetail(n))
                        <=> Cardinality({o \in Mismatching : o <= n}) <= 5

\* C5 witness: six rows mismatch, none lacks the column, and the function
\* has returned.
C5_Witness ==
    /\ ret.called
    /\ Lacking = {}
    /\ Cardinality(Mismatching) = 6
    /\ ~ret.out.passed

-----------------------------------------------------------------------------
(* C8.  Placeholder value rendering.                                       *)

\* the rows of the step a placeholder names
RefRows(piece) == StepRows(args.step_results, piece.step_name)

\* the column a placeholder names is a column of the first row of its step
ColumnPresent(piece) == RefRows(piece) # <<>> /\ Has(RefRows(piece)[1], piece.column)

\* a value as a SQL literal: text in single quotes, a null as NULL, a number
\* as its digits, a boolean as its name
SqlLiteral(v) ==
    CASE v.t = "str" -> "'" \o v.s \o "'"
      [] v.t = "none" -> "NULL"
      [] OTHER -> Format(v)

\* the placeholders of the template under test
Refs == {args.pieces[n] : n \in {m \in 1..Len(args.pieces) : args.pieces[m].is_ref}}

\* C8: when every placeholder of the template names a column present in the
\* first row of its step, render_sql returns the template with each
\* placeholder replaced by the SQL literal of that value (a null included),
\* the replaced text not being scanned again; and the "column not found"
\* failure is raised only for a column that the first row does not have.
C8_PlaceholderRendering ==
    ret.called =>
        /\ (\A piece \in Refs : ColumnPresent(piece)) =>
              /\ ~ret.out.raised
              /\ ret.out.sql =
                   Concat([n \in 1..Len(args.pieces) |->
                             IF args.pieces[n].is_ref
                             THEN SqlLiteral(Get(RefRows(args.pieces[n])[1],
                                                 args.pieces[n].column))
                             ELSE args.pieces[n].text])
        /\ (ret.out.raised /\ Contains(ret.out.exc, "' not found in step '")) =>
              \E piece \in Refs :
                  RefRows(piece) # <<>> /\ ~Has(RefRows(piece)[1], piece.column)

-----------------------------------------------------------------------------
(* C9.  Expression evaluation fails closed.                                *)

\* C9: evaluate_expression never raises; it passes iff the expression
\* evaluates without an exception to a truthy value; on a falsy value it
\* fails with a message that holds the expression text and the first row of
\* each step that has rows; when the evaluation raises it fails with the
\* expression-error message that carries the text of the exception.
C9_ExpressionFailsClosed ==
    ret.called =>
        LET result == Eval(args.expr, args.steps)
            out == ret.out
        IN  /\ ~out.raised
            /\ out.passed <=> (~result.raised /\ Truthy(result.val))
            /\ (~result.raised /\ ~Truthy(result.val)) =>
                  /\ Contains(out.message, args.expr.value.s)
                  /\ \A n \in 1..Len(args.steps) :
                        args.steps[n].v # <<>> =>
                            Contains(out.message,
                                     args.steps[n].k \o ": "
                                     \o ReprDict(args.steps[n].v[1]))
            /\ result.raised => out.message = "Expression error: " \o result.exc

\* C9 witness: the comparison of the spec's scenario came out false (10
\* against 9) and the call returned a failure.
C9_Witness ==
    /\ ret.called
    /\ args.expr = Binary("eq", Cell("source", 0, "cnt"), Cell("target", 0, "cnt"))
    /\ ~Eval(args.expr, args.steps).raised
    /\ ~ret.out.passed

\* C9 witness of the failure by exception: an index out of range
C9_WitnessError ==
    /\ ret.called
    /\ Eval(args.expr, args.steps).raised
    /\ ret.out.message = "Expression error: list index out of range"

-----------------------------------------------------------------------------
(* The claims on run_test.                                                 *)

\* the run is one of a multi-step definition
Multistep == "_sql_steps" \in cur_meta.keys

\* the steps whose query was executed and raised
RaisedAt == {n \in 1..Len(cur_run.executed) : cur_run.executed[n].raised}

-----------------------------------------------------------------------------
(* C1.  Multi-step fail-fast.                                              *)

\* C1: in a multi-step run, a step whose query execution raised, whatever
\* the text of the exception, is the last step rendered and executed; the
\* run is over, the result holds one StepResult per step up to that one, in
\* the declared order, the last with its error set; the test has failed and
\* the message names the step and carries the error.
C1_FailFast ==
    Multistep =>
        \A n \in RaisedAt :
            /\ n = Len(cur_run.executed)
            /\ n = Len(cur_run.rendered)
            /\ pc = "done"
            /\ Len(cur_run.result.steps) = n
            /\ \A j \in 1..n : cur_run.result.steps[j].step_name = cur_meta.steps[j].name
            /\ cur_run.result.steps[n].error # PyNone
            /\ ~cur_run.result.passed
            /\ Contains(cur_run.result.message, "'" \o cur_meta.steps[n].name \o "'")
            /\ Contains(cur_run.result.message, cur_run.executed[n].exc)

-----------------------------------------------------------------------------
(* C2.  run_test never raises.                                             *)

\* C2: run_test returns; if a failure occurred while running the definition
\* (connection, SQL body, rendering, query, evaluation) the result has
\* passed = false and a message that carries the text of the error; passed
\* is true only when the evaluation decided so.
C2_NeverRaises ==
    pc = "done" =>
        /\ cur_run.outcome = "returned"
        /\ \A n \in 1..Len(cur_run.errors) :
              /\ ~cur_run.result.passed
              /\ Contains(cur_run.result.message, cur_run.errors[n])
        /\ cur_run.result.passed => cur_run.evaluated

-----------------------------------------------------------------------------
(* C6.  Multi-step verdict selection.                                      *)

\* every declared step was executed, and none with an error
AllStepsSucceeded ==
    /\ Len(cur_run.executed) = Len(cur_meta.steps)
    /\ RaisedAt = {}

\* C6: when every declared step (there is one at least) of a multi-step
\* test executed without error, the verdict is that of the success
\* expression over the collected results if the definition has a
\* success_expression, and otherwise that of the column rule on the rows of
\* the last declared step.
C6_VerdictSelection ==
    (pc = "done" /\ Multistep /\ cur_meta.steps # <<>> /\ AllStepsSucceeded) =>
        LET verdict ==
                IF "success_expression" \in cur_meta.keys
                THEN evaluate_expression(cur_meta.success_expression, cur_run.collected)
                ELSE evaluate_simple_test(cur_meta,
                                          cur_run.executed[Len(cur_run.executed)].rows)
        IN  /\ cur_run.result.passed = verdict.passed
            /\ cur_run.result.message = verdict.message

-----------------------------------------------------------------------------
(* C7.  Unresolved step reference.                                         *)

\* the next pass of the loop of _run_multistep is about to start
AtStep == pc \in {"run_test", "loop"} /\ Multistep /\ step_ix <= Len(cur_meta.steps)

\* the SQL body of the step the loop is at
BodyAtStep ==
    LET step_name == cur_meta.steps[step_ix].name
    IN  IF Has(cur_meta._sql_steps, step_name)
        THEN Get(cur_meta._sql_steps, step_name) ELSE ""

\* the steps that the placeholders of a text name: a placeholder is
\* {{step.<name>.<column>}} with a name and a column of word characters
Referenced(t) ==
    {PlaceholderAt(t, p).step_name : p \in {q \in 1..Len(t) : PlaceholderAt(t, q).found}}

\* the step names and columns of the model, and the steps a text mentions
\* as {{step.s.col}}, whatever the characters of s
StepNames == {"a", "b", "my-step"}
Columns == {"cnt", "success"}
Mentioned(t) ==
    {s \in StepNames : \E col \in Columns : Contains(t, PlaceholderText(s, col))}

\* step s has no rows collected: not executed yet, or executed with no row
Unresolved(s) == StepRows(cur_run.collected, s) = <<>>

\* the rows of the last execution of the step named s
LastRows(s) ==
    LET n == CHOOSE j \in 1..Len(cur_run.executed) :
                 /\ cur_run.executed[j].step_name = s
                 /\ \A o \in 1..Len(cur_run.executed) :
                        cur_run.executed[o].step_name = s => o <= j
    IN  cur_run.executed[n].rows

\* a step is rendered against the results of the steps executed before it
\* in the same run, and against nothing else
CollectedIsExecuted ==
    Multistep =>
        /\ \A n \in 1..Len(cur_run.collected) :
              /\ \E j \in 1..Len(cur_run.executed) :
                    cur_run.executed[j].step_name = cur_run.collected[n].k
              /\ cur_run.collected[n].v = LastRows(cur_run.collected[n].k)
        /\ \A j \in 1..Len(cur_run.executed) :
              Has(cur_run.collected, cur_run.executed[j].step_name)
        /\ \A j \in 1..Len(cur_run.executed) :
              cur_run.executed[j].step_name = cur_meta.steps[j].name

\* the pass of the loop at a step does not execute the step's query, ends
\* the run, and the test fails
StepRefused ==
    /\ cur_run'.executed = cur_run.executed
    /\ cur_run'.result.steps = cur_run.result.steps
    /\ pc' = "done"
    /\ ~cur_run'.result.passed

-----------------------------------------------------------------------------
(* C4.  One result per test file.                                          *)

\* the files the run discovered
Discovered == {test_files[n] : n \in 1..Len(test_files)}

\* the results appended for a file
ResultsOf(file) == {n \in 1..Len(results) : results[n].file_path = file.path}

\* cmd_run is over: it has left the loop
RunOver == cli_pc \in {"exited", "crashed"}

\* C4: when a run of cmd_run is over, with or without a tag filter, the
\* results list holds exactly one TestResult for every discovered file.
C4_OneResultPerFile ==
    RunOver => \A file \in Discovered : Cardinality(ResultsOf(file)) = 1

-----------------------------------------------------------------------------
(* C11.  The authentication rule.                                          *)

\* the descriptor a simple definition declares: the shared one it names, or
\* its inline fields, those the definition holds and no other
DeclaredInfo ==
    IF "connection" \in cur_meta.keys
    THEN resolve(shared, cur_meta.connection).info
    ELSE [NoInfo EXCEPT
            !.keys = cur_meta.keys \cap {"server", "database", "username", "password",
                                         "trusted_connection", "driver",
                                         "trust_server_certificate"},
            !.server = cur_meta.server, !.database = cur_meta.database,
            !.username = cur_meta.username, !.password = cur_meta.password,
            !.trusted_connection = cur_meta.trusted_connection,
            !.driver = cur_meta.driver,
            !.trust_server_certificate = cur_meta.trust_server_certificate]

\* the definition's connection is declared: the name is known, or the
\* inline fields hold a server
Declared ==
    IF "connection" \in cur_meta.keys
    THEN ~resolve(shared, cur_meta.connection).raised
    ELSE "server" \in cur_meta.keys

\* C11: for the descriptor of a simple definition, named or inline: if it is
\* trusted, every connection string used carries Trusted_Connection=yes and
\* no UID or PWD; if it is not trusted and lacks username or password, the
\* run fails with an error and no connection is opened.
C11_AuthenticationRule ==
    (pc = "done" /\ ~Multistep /\ Declared) =>
        IF Truthy(InfoGet(DeclaredInfo, "trusted_connection", PyBool(FALSE)))
        THEN \A h \in 1..Len(handles) :
                /\ Contains(handles[h].str, "Trusted_Connection=yes")
                /\ ~Contains(handles[h].str, "UID=")
                /\ ~Contains(handles[h].str, "PWD=")
        ELSE ~({"username", "password"} \subseteq DeclaredInfo.keys) =>
                /\ handles = <<>>
                /\ ~cur_run.result.passed
                /\ cur_run.errors # <<>>

-----------------------------------------------------------------------------
(* C12.  One StepResult per executed step, in order.                       *)

\* the StepResults are those of the queries whose execution was attempted,
\* in the order of the attempts, which is the order of the declaration
StepResultsAreExecutions ==
    /\ Len(cur_run.result.steps) = Len(cur_run.executed)
    /\ \A n \in 1..Len(cur_run.executed) :
          /\ cur_run.result.steps[n].step_name = cur_run.executed[n].step_name
          /\ cur_run.result.steps[n].rows = cur_run.executed[n].rows
          /\ Multistep => cur_run.executed[n].step_name = cur_meta.steps[n].name

\* C12: in simple and in multi-step mode the steps of the result are, one
\* for one and in order, the steps whose query execution was attempted,
\* whether it succeeded or raised; and a StepResult, once appended, stays as
\* it is.
C12_OneStepResultPerExecution ==
    /\ [] StepResultsAreExecutions
    /\ [][\A n \in 1..Len(cur_run.result.steps) :
             /\ n <= Len(cur_run'.result.steps)
             /\ cur_run'.result.steps[n] = cur_run.result.steps[n]]_vars

-----------------------------------------------------------------------------
(* C16.  A pass implies a complete, error-free run.                        *)

\* C16: a multi-step run that ends with passed = true holds one StepResult
\* for every declared step, in the declared order; no query of the run
\* raised, and no step failed to connect or to render.
C16_PassImpliesCleanRun ==
    (pc = "done" /\ Multistep /\ cur_run.result.passed) =>
        /\ Len(cur_run.result.steps) = Len(cur_meta.steps)
        /\ \A n \in 1..Len(cur_meta.steps) :
              cur_run.result.steps[n].step_name = cur_meta.steps[n].name
        /\ RaisedAt = {}
        /\ cur_run.errors = <<>>

-----------------------------------------------------------------------------
(* C14.  The variable resolution rule.                                     *)

\* what the rule gives for one part of a string
Resolved(part) ==
    IF ~part.is_var THEN [raised |-> FALSE, text |-> part.text]
    ELSE IF Has(args.environ, part.var_name)
    THEN [raised |-> FALSE, text |-> Get(args.environ, part.var_name)]
    ELSE IF part.has_default THEN [raised |-> FALSE, text |-> part.default]
    ELSE [raised |-> TRUE, text |-> part.var_name]

\* the parts the rule cannot resolve
Failing(parts) == {n \in 1..Len(parts) : Resolved(parts[n]).raised}

\* what the rule gives for a string made of parts: each part by itself,
\* or the failure of the first part that cannot be resolved
ResolvedText(parts) ==
    IF Failing(parts) # {}
    THEN [raised |-> TRUE,
          text |-> parts[CHOOSE n \in Failing(parts) :
                            \A o \in Failing(parts) : n <= o].var_name]
    ELSE [raised |-> FALSE,
          text |-> Concat([n \in 1..Len(parts) |-> Resolved(parts[n]).text])]

\* the parts of the other strings of the mapping of Shapes
HostOrH == <<VarOr("HOST", "h")>>
PortOr1433 == <<VarOr("PORT", "1433")>>

\* C14: each placeholder of a string is replaced by the value of its
\* variable when it is set, else by its default when it has one, else the
\* resolution fails with an error naming the variable; the placeholders are
\* resolved one by one and the replaced text is not scanned again; a mapping
\* or a sequence is returned with the same keys, order and other leaves.
C14_ResolutionRule ==
    ret.called =>
        LET want == ResolvedText(args.parts)
            out == ret.out
        IN  IF args.value.kind = "str"
            THEN /\ out.raised = want.raised
                 /\ want.raised =>
                       Contains(out.exc, "'${" \o want.text \o "}' is not set")
                 /\ ~want.raised => out.value = StrNode(want.text)
            ELSE /\ out.raised = want.raised
                 /\ want.raised =>
                       Contains(out.exc, "'${" \o want.text \o "}' is not set")
                 /\ ~want.raised =>
                       out.value =
                         DictNode(<<[k |-> "port", v |-> LeafNode(PyInt(1433))],
                                    [k |-> "${HOST}",
                                     v |-> ListNode(<<StrNode(want.text), LeafNode(PyNone),
                                                      StrNode(ResolvedText(HostOrH).text)>>)],
                                    [k |-> "server",
                                     v |-> StrNode(ResolvedText(PortOr1433).text)]>>)

\* C14 witness: in a mapping, a string of three placeholders was resolved
\* with HOST set to the empty text and PORT to text that reads as a
\* placeholder, which stayed as it is.
C14_Witness ==
    /\ ret.called
    /\ args.value.kind = "dict"
    /\ args.parts = <<VarOr("HOST", "local"), Var("PORT"), VarOr("USER", "${HOST")>>
    /\ Has(args.environ, "PORT")
    /\ ~ret.out.raised
    /\ ret.out.value.items[2].v.items[1].v.text = "${HOST}${HOST"

\* C14 witness of the failure: the variable of the second placeholder is not
\* set and has no default
C14_WitnessError ==
    /\ ret.called
    /\ args.parts = <<VarOr("PORT", ""), Var("HOST")>>
    /\ ret.out.raised
    /\ ret.out.exc = "Environment variable '${HOST}' is not set and no default provided"

-----------------------------------------------------------------------------
(* C15.  get_connection from two threads.                                  *)

\* both threads came back from get_connection with a connection
BothReturned == \A t \in Callers : threads[t].pc = "done" /\ ~threads[t].raised

\* the handles the driver opened for connection string s
OpenedFor(s) == {h \in 1..Len(handles) : handles[h].str = s}

\* C15: when two threads call get_connection at the same time with
\* descriptors that build the same connection string, exactly one
\* connection is opened for that string, both threads receive it, and it is
\* the one in the cache.
C15_AtomicGetOrCreate ==
    (BothReturned /\ threads["t1"].conn_str = threads["t2"].conn_str) =>
        LET s == threads["t1"].conn_str
        IN  /\ Cardinality(OpenedFor(s)) = 1
            /\ threads["t1"].conn = threads["t2"].conn
            /\ s \in DOMAIN cache
            /\ cache[s] = threads["t1"].conn

-----------------------------------------------------------------------------
(* C13.  How the parser classifies the body.                               *)

\* the indexes of the step markers among the lines of the body
Markers(lines) == {n \in 1..Len(lines) : lines[n].is_marker}

\* the text of the block of the marker at line n: the lines after it, up to
\* the next marker
BlockOf(lines, n) ==
    LET later == {o \in Markers(lines) : o > n}
        to == IF later = {} THEN Len(lines)
              ELSE (CHOOSE o \in later : \A l \in later : o <= l) - 1
    IN  LinesText(SubSeq(lines, n + 1, to))

RECURSIVE NamedBodies(_, _, _)
\* the named bodies of the lines, from line n on: a new name goes last, a
\* repeated name keeps its place and takes the text of the later block
NamedBodies(lines, n, bodies) ==
    IF n > Len(lines) THEN bodies
    ELSE NamedBodies(lines, n + 1,
                     IF lines[n].is_marker
                     THEN Put(bodies, lines[n].name, StrNode(StripWs(BlockOf(lines, n))))
                     ELSE bodies)

\* the metadata of the file can be resolved: the block holds a mapping and
\* the variable of its placeholder, if it has one, is set
MetadataResolves ==
    /\ args.head.mapping
    /\ Contains(args.head.text, "${PW}") => Has(args.environ, "PW")

\* C13: a body whose step-marker lines name N distinct steps yields exactly
\* N named SQL bodies, in the order of the first occurrence of each name, a
\* repeated name keeping the trimmed text of its last block; a body with no
\* step marker yields one implicit SQL body, the trimmed body, and no named
\* bodies; a text with no metadata block fails to parse.
C13_BodyClassification ==
    ret.called =>
        /\ ~args.head.block => ret.out.raised
        /\ MetadataResolves =>
              /\ ~ret.out.raised
              /\ IF Markers(args.lines) # {}
                 THEN /\ ~Has(ret.out.meta, "_sql")
                      /\ Has(ret.out.meta, "_sql_steps")
                      /\ Get(ret.out.meta, "_sql_steps") =
                           DictNode(NamedBodies(args.lines, 1, <<>>))
                 ELSE /\ ~Has(ret.out.meta, "_sql_steps")
                      /\ Has(ret.out.meta, "_sql")
                      /\ Get(ret.out.meta, "_sql") = StrNode(StripWs(LinesText(args.lines)))

====
